---- MODULE Spec2Model ----
(***************************************************************************)
(* A model of the poly_discover discovery pipeline: the shared             *)
(* DiscoveryProgress, the HTTP handlers that start, cancel and poll a      *)
(* scan, the single-shot and continuous runner tasks, and the              *)
(* discovery_backtests cache they share.                                   *)
(*                                                                         *)
(* Numbers: Decimal and f64 values are integers (prices in thousandths,    *)
(* multipliers in tenths).  A params_hash is the tuple that is hashed:     *)
(* SHA-256 is taken to be injective on the inputs the program builds.      *)
(***************************************************************************)
EXTENDS Integers, Sequences, FiniteSets, TLC

\* ------------------------------------------------------------------ bounds
\* How many of the generator's descriptors the model keeps, in generator order.
GridCombos == 2
GridGabagool == 1
Cycle1Len == 2
Cycle2Len == 1
\* api_discovery_status has no await: the steps a runner task gets in while
\* one call reads the fields.
PollWindow == 2
\* Cache calls that fail in one behaviour of a scan with an unreliable store.
MaxFaults == 2
\* The largest top_n of the requests whose ranking is followed.
MaxTopN == 2
\* The largest total_trades of the results handed to score_result.
MaxTrades == 6
\* The longest series of bars replayed under every possible signal.
MaxBars == 4
\* Entries and exits of the long replays: enough closed trades for the Kelly
\* rule to apply, and the losing ones among them.
RoundTrips == 11
MaxLosses == 10
\* The most sub-generators of a ComboSignalGenerator.
MaxSubs == 4
\* The longest series of bars handed to the arbitrage engine.
MaxWindows == 2
\* seeds the thread's random generator may start a generator call from
MaxSeeds == 2
\* The share counts below a hundred that fees are computed for.
MaxFeeShares == 12

\* ------------------------------------------------------- program constants
YieldEvery == 50
RefineTop == 20
EstimatedVariants == 27
InitialCapital == 10000
MinTrades == 5
DefaultDays == 365
FirstMlCycle == 3
ExploitParents == 30
BasePositionPct == 100
KellyMinTrades == 10
KellyCap == 250
MlBaseBudget == 300
MlCycleBudget == 50
MlMaxBudget == 1000
RandomPairs == 200

Symbols == <<"BTCUSDT", "ETHUSDT">>
SizingModes == <<"Fixed", "Kelly", "ConfidenceWeighted">>
DaysVariants == <<30, 60, 90, 180, 365>>
CombineModes == <<"unanimous", "majority", "primary_confirmed">>

Running == {"FetchingData", "Phase1BroadScan", "Phase2Refinement", "Phase3Exploration"}

Max(a, b) == IF a >= b THEN a ELSE b
Min(a, b) == IF a <= b THEN a ELSE b

IndexOf(seq, x) == CHOOSE i \in 1..Len(seq) : seq[i] = x

\* ------------------------------------------------------------- descriptors
\* IndicatorParams of indicator ind in profile variant: 0 default, 1 aggressive,
\* 2 conservative; mutate_indicator_params moves a variant to variant + 3.
IndicatorParams(ind, variant) == [indicator |-> ind, variant |-> variant]

DynamicCombo(inds, params, mode) ==
    [type |-> "dynamic_combo", indicators |-> inds, params |-> params,
     combine_mode |-> mode]

Gabagool(mpc, bo, sm) ==
    [type |-> "gabagool", max_pair_cost |-> mpc, bid_offset |-> bo,
     spread_multiplier |-> sm]

\* The descriptor record_to_result falls back to when strategy_params does not parse.
FallbackRsi == [type |-> "rsi", period |-> 14, overbought |-> 70, oversold |-> 30]

\* The k-th (0-based) descriptor of the pair block of the Phase-1 grid: pairs
\* (i, j) in lexicographic order, then the three profiles, then the three modes.
Phase1Combo(k) ==
    LET j == 2 + (k \div 9)
        variant == (k % 9) \div 3
        mode == CombineModes[(k % 3) + 1]
    IN DynamicCombo(<<1, j>>,
                    <<IndicatorParams(1, variant), IndicatorParams(j, variant)>>,
                    mode)

\* The k-th (0-based) descriptor of the arbitrage sweep of the Phase-1 grid.
Phase1Gabagool(k) ==
    LET mpcs == <<920, 940, 960, 980>>
        bos == <<5, 10, 20, 30>>
        sms == <<20, 30, 50>>
    IN Gabagool(mpcs[(k \div 12) + 1], bos[((k % 12) \div 3) + 1], sms[(k % 3) + 1])

generate_phase1_grid ==
    [k \in 1..GridCombos |-> Phase1Combo(k - 1)]
        \o [k \in 1..GridGabagool |-> Phase1Gabagool(k - 1)]

\* Cycle 1: the quadruples in Unanimous and PrimaryConfirmed mode, default params.
Cycle1Combo(k) ==
    LET l == 4 + (k \div 2)
        inds == <<1, 2, 3, l>>
        mode == IF k % 2 = 0 THEN "unanimous" ELSE "primary_confirmed"
    IN DynamicCombo(inds, [i \in 1..4 |-> IndicatorParams(inds[i], 0)], mode)

\* Cycle 2: the pairs with mixed profiles, aggressive+conservative and the reverse.
Cycle2Combo(k) ==
    LET j == 2 + (k \div 6)
        mode == CombineModes[((k % 6) \div 2) + 1]
        va == IF k % 2 = 0 THEN 1 ELSE 2
        vb == IF k % 2 = 0 THEN 2 ELSE 1
    IN DynamicCombo(<<1, j>>, <<IndicatorParams(1, va), IndicatorParams(j, vb)>>, mode)

generate_exploratory_grid(cycle) ==
    CASE cycle = 0 -> generate_phase1_grid
      [] cycle = 1 -> [k \in 1..Cycle1Len |-> Cycle1Combo(k - 1)]
      [] OTHER -> [k \in 1..Cycle2Len |-> Cycle2Combo(k - 1)]

mutate_indicator_params(p) == [p EXCEPT !.variant = p.variant + 3]

\* The 27 arbitrage variants, in the order of the three nested loops.
GabagoolVariant(s, k) ==
    LET dmpc == <<-10, 0, 10>>[(k \div 9) + 1]
        dbo == <<-5, 0, 5>>[((k % 9) \div 3) + 1]
        dsm == <<-5, 0, 5>>[(k % 3) + 1]
    IN Gabagool(Min(Max(s.max_pair_cost + dmpc, 850), 990),
                Max(s.bid_offset + dbo, 1),
                Max(s.spread_multiplier + dsm, 10))

generate_refinement_grid(s) ==
    CASE s.type = "gabagool" -> [k \in 1..27 |-> GabagoolVariant(s, k - 1)]
      [] s.type = "dynamic_combo" ->
            LET others == SelectSeq(CombineModes, LAMBDA m : m # s.combine_mode)
            IN [k \in 1..Len(others) |->
                    DynamicCombo(s.indicators, s.params, others[k])]
               \o [idx \in 1..Len(s.params) |->
                    DynamicCombo(s.indicators,
                                 [s.params EXCEPT ![idx] = mutate_indicator_params(s.params[idx])],
                                 s.combine_mode)]
      [] OTHER -> <<s>>

\* strategy_type.name(): the indicators and the mode, never the parameters.
StrategyName(s) ==
    CASE s.type = "gabagool" -> <<"Gabagool">>
      [] s.type = "dynamic_combo" -> <<s.indicators, s.combine_mode>>
      [] OTHER -> <<"RSI">>

\* ---------------------------------------------------------------- results
\* Decimal values are fixed-point integers with two decimals (1.00 = 100).
DecimalToString(d) == <<"dec", d>>
\* Decimal::from_str_exact(s).unwrap_or(ZERO)
parse_dec(s) == IF Len(s) = 2 /\ s[1] = "dec" THEN s[2] ELSE 0

\* serde_json::to_string(strategy) and serde_json::from_str with its fallback.
StrategyToJson(s) == <<"json", s>>
StrategyFromJson(j) == IF Len(j) = 2 /\ j[1] = "json" THEN j[2] ELSE FallbackRsi

\* to_lowercase() of the labels format!("{:?}", sizing_mode) can produce.
ToLowercase(label) ==
    CASE label = "Kelly" -> "kelly"
      [] label = "ConfidenceWeighted" -> "confidenceweighted"
      [] label = "Fixed" -> "fixed"
      [] OTHER -> label

ParseSizingMode(label) ==
    CASE ToLowercase(label) = "kelly" -> "Kelly"
      [] ToLowercase(label) = "confidenceweighted" -> "ConfidenceWeighted"
      [] OTHER -> "Fixed"

\* A number that stands for the descriptor's parameters in the replay below.
StrategyCode(s) ==
    CASE s.type = "gabagool" ->
            s.max_pair_cost + 3 * s.bid_offset + s.spread_multiplier
      [] s.type = "dynamic_combo" ->
            LET RECURSIVE Sum(_)
                Sum(i) == IF i = 0 THEN 0
                          ELSE 7 * s.params[i].indicator + 3 * s.params[i].variant
                               + Sum(i - 1)
            IN Sum(Len(s.params)) + 5 * IndexOf(CombineModes, s.combine_mode)
      [] OTHER -> 1

\* The bars of one symbol: which fetch produced them and the window in days.
Klines(symbol, fetched, days) == [symbol |-> symbol, fetched |-> fetched, days |-> days]

slice_klines_to_days(klines, days) == [klines EXCEPT !.days = Min(klines.days, days)]

\* The replay of a descriptor over the bars stands for run_generic_backtest and
\* the arbitrage engine: a fixed function of the descriptor, the bars and the
\* sizing mode.  A fresh result carries composite_score 0 and rank 0.
run_single_backtest(strategy_type, klines, symbol, sizing_mode) ==
    LET seed == StrategyCode(strategy_type) + 11 * IndexOf(Symbols, symbol)
                + 13 * klines.fetched + klines.days
                + 17 * IndexOf(SizingModes, sizing_mode)
    IN [rank |-> 0,
        strategy_type |-> strategy_type,
        strategy_name |-> StrategyName(strategy_type),
        symbol |-> symbol,
        sizing_mode |-> sizing_mode,
        composite_score |-> 0,
        net_pnl |-> (((seed * 37) % 61) - 20) * 1000,
        win_rate |-> 4000 + (seed % 5) * 1000,
        total_trades |-> seed % 9,
        sharpe_ratio |-> (seed % 3) * 50,
        max_drawdown_pct |-> (seed % 4) * 250,
        profit_factor |-> 50 + (seed % 4) * 50,
        strategy_confidence |-> 0,
        sortino_ratio |-> (seed % 2) * 100,
        max_consecutive_losses |-> seed % 12]

\* score_result with its first test one trade lower: a result with four
\* trades gets the sum of the terms.
ScoreFromFourTrades(result, initial_capital) ==
    IF result.total_trades < MinTrades - 1 THEN -999900
    ELSE result.net_pnl
         + (IF result.win_rate >= 7000 THEN 3
            ELSE IF result.win_rate >= 5500 THEN 2 ELSE 1) * (result.win_rate - 5000)
         + result.sharpe_ratio * 100
         - result.max_drawdown_pct * 3
         + (IF result.profit_factor > 100 THEN 50 ELSE 100)
           * (result.profit_factor - 100)
         + (IF initial_capital > 0 /\ result.net_pnl > initial_capital * 20 THEN 20000
            ELSE 0)
         + result.strategy_confidence * 3
         + Min(result.sortino_ratio, 500) * 50
         - (IF result.max_consecutive_losses > 10 THEN 10000
            ELSE IF result.max_consecutive_losses > 7 THEN 5000 ELSE 0)

score_result(result, initial_capital) ==
    IF result.total_trades < MinTrades THEN -999900
    ELSE
      LET net_pnl == result.net_pnl
          win_rate_bonus ==
              IF result.win_rate >= 7000 THEN (result.win_rate - 5000) * 3
              ELSE IF result.win_rate >= 5500 THEN (result.win_rate - 5000) * 2
              ELSE result.win_rate - 5000
          sharpe_bonus == result.sharpe_ratio * 100
          drawdown_penalty == result.max_drawdown_pct * 3
          pf_bonus == IF result.profit_factor > 100
                      THEN (result.profit_factor - 100) * 50
                      ELSE (result.profit_factor - 100) * 100
          explosive_bonus ==
              IF initial_capital > 0 /\ net_pnl > (initial_capital * 100 * 20) \div 100
              THEN 20000 ELSE 0
          confidence_bonus == result.strategy_confidence * 3
          sortino_capped == Min(result.sortino_ratio, 500)
          sortino_bonus == sortino_capped * 50
          streak_penalty == IF result.max_consecutive_losses > 10 THEN 10000
                            ELSE IF result.max_consecutive_losses > 7 THEN 5000
                            ELSE 0
      IN net_pnl + win_rate_bonus + sharpe_bonus - drawdown_penalty + pf_bonus
         + explosive_bonus + confidence_bonus + sortino_bonus - streak_penalty

\* slice::sort_by(|a, b| b.0.cmp(&a.0)) is a stable sort, highest score first:
\* the place after the places already taken goes to the earliest of the
\* results in `among` with the highest score.
NextBest(results, initial_capital, among) ==
    LET scores == {score_result(results[i], initial_capital) : i \in among}
        best == CHOOSE s \in scores : \A t \in scores : s >= t
        firsts == {i \in among : score_result(results[i], initial_capital) = best}
    IN CHOOSE i \in firsts : \A j \in firsts : i <= j

\* The indices of the first k places of the sorted list.
RECURSIVE SortedPrefix(_, _, _, _)
SortedPrefix(results, initial_capital, k, taken) ==
    LET among == (1..Len(results)) \ {taken[j] : j \in 1..Len(taken)}
    IN IF Len(taken) >= k \/ among = {} THEN taken
       ELSE SortedPrefix(results, initial_capital, k,
                         Append(taken, NextBest(results, initial_capital, among)))

\* The list update_best_so_far stores into progress.best_so_far.
BestOf(results, initial_capital, top_n) ==
    LET best == SortedPrefix(results, initial_capital, top_n, << >>)
    IN [i \in 1..Len(best) |->
            [results[best[i]] EXCEPT
                !.rank = i,
                !.composite_score = score_result(results[best[i]], initial_capital)]]

\* The first 20 results of the ranking that opens Phase 2.
TopForRefinement(results, initial_capital) ==
    LET top == SortedPrefix(results, initial_capital, RefineTop, << >>)
    IN [i \in 1..Len(top) |-> results[top[i]]]

\* generate_ml_guided_grid, the choice of the exploitation parents: a stable
\* sort of the results by the composite_score they carry, highest first, and
\* the first 30.  The places in top_results of the parents, in that order.
StoredBest(top_results, among) ==
    LET scores == {top_results[i].composite_score : i \in among}
        best == CHOOSE s \in scores : \A t \in scores : s >= t
        firsts == {i \in among : top_results[i].composite_score = best}
    IN CHOOSE i \in firsts : \A j \in firsts : i <= j

RECURSIVE StoredPrefix(_, _, _)
StoredPrefix(top_results, k, taken) ==
    LET among == (1..Len(top_results)) \ {taken[j] : j \in 1..Len(taken)}
    IN IF Len(taken) >= k \/ among = {} THEN taken
       ELSE StoredPrefix(top_results, k,
                         Append(taken, StoredBest(top_results, among)))

ExploitationParents(top_results) ==
    StoredPrefix(top_results, ExploitParents, << >>)

DedupKey(result) == <<result.strategy_name, result.symbol, result.total_trades>>

\* The finalisation of run_discovery: score, sort, keep the first result of
\* every (strategy_name, symbol, total_trades) key, rank, and stop once a push
\* brings the list to top_n.
RECURSIVE DedupRank(_, _, _, _)
DedupRank(results, initial_capital, top_n, acc) ==
    LET seen == {DedupKey(acc[j]) : j \in 1..Len(acc)}
        among == {i \in 1..Len(results) : DedupKey(results[i]) \notin seen}
    IN IF among = {} \/ (acc # << >> /\ Len(acc) >= top_n) THEN acc
       ELSE LET i == NextBest(results, initial_capital, among)
            IN DedupRank(results, initial_capital, top_n,
                         Append(acc, [results[i] EXCEPT
                            !.rank = Len(acc) + 1,
                            !.composite_score =
                                score_result(results[i], initial_capital)]))

FinalResults(results, initial_capital, top_n) ==
    DedupRank(results, initial_capital, top_n, << >>)

\* ------------------------------------------------------------------ cache
compute_params_hash(strategy, symbol, days, sizing) ==
    <<StrategyToJson(strategy), symbol, days, sizing>>

result_to_record(result, hash, run_id, phase, days) ==
    [params_hash |-> hash,
     strategy_type |-> result.strategy_type.type,
     strategy_name |-> result.strategy_name,
     strategy_params |-> StrategyToJson(result.strategy_type),
     symbol |-> result.symbol,
     days |-> days,
     sizing_mode |-> result.sizing_mode,
     composite_score |-> DecimalToString(result.composite_score),
     net_pnl |-> DecimalToString(result.net_pnl),
     win_rate |-> DecimalToString(result.win_rate),
     total_trades |-> result.total_trades,
     sharpe_ratio |-> DecimalToString(result.sharpe_ratio),
     max_drawdown_pct |-> DecimalToString(result.max_drawdown_pct),
     profit_factor |-> DecimalToString(result.profit_factor),
     discovery_run_id |-> run_id,
     phase |-> phase,
     sortino_ratio |-> DecimalToString(result.sortino_ratio),
     max_consecutive_losses |-> result.max_consecutive_losses,
     strategy_confidence |-> DecimalToString(result.strategy_confidence)]

record_to_result(record) ==
    [rank |-> 0,
     strategy_type |-> StrategyFromJson(record.strategy_params),
     strategy_name |-> record.strategy_name,
     symbol |-> record.symbol,
     sizing_mode |-> ParseSizingMode(record.sizing_mode),
     composite_score |-> parse_dec(record.composite_score),
     net_pnl |-> parse_dec(record.net_pnl),
     win_rate |-> parse_dec(record.win_rate),
     total_trades |-> record.total_trades,
     sharpe_ratio |-> parse_dec(record.sharpe_ratio),
     max_drawdown_pct |-> parse_dec(record.max_drawdown_pct),
     profit_factor |-> parse_dec(record.profit_factor),
     strategy_confidence |-> parse_dec(record.strategy_confidence),
     sortino_ratio |-> parse_dec(record.sortino_ratio),
     max_consecutive_losses |-> record.max_consecutive_losses]

\* The rows of discovery_backtests, in id order: row i has id i (AUTOINCREMENT,
\* and no row is ever deleted).
HasHash(rows, hash) == \E i \in 1..Len(rows) : rows[i].params_hash = hash

\* A lookup that never finds a row.
GetNothing(rows, hash) == << >>

\* get_by_hash: SELECT ... WHERE params_hash = ?, fetch_optional.
get_by_hash(rows, hash) ==
    IF HasHash(rows, hash)
    THEN <<rows[CHOOSE i \in 1..Len(rows) : rows[i].params_hash = hash]>>
    ELSE << >>

\* INSERT OR REPLACE: the row of the hash gives way to the new record.
SaveReplacing(rows, record) ==
    IF HasHash(rows, record.params_hash)
    THEN [rows |-> [i \in 1..Len(rows) |->
                        IF rows[i].params_hash = record.params_hash THEN record
                        ELSE rows[i]],
          ok |-> TRUE]
    ELSE [rows |-> Append(rows, record), ok |-> TRUE]

\* A plain INSERT: the UNIQUE constraint fails the statement.
SavePlainInsert(rows, record) ==
    IF HasHash(rows, record.params_hash) THEN [rows |-> rows, ok |-> FALSE]
    ELSE [rows |-> Append(rows, record), ok |-> TRUE]

\* save: INSERT OR IGNORE under the UNIQUE constraint on params_hash.  The
\* table after the call, and whether the call returned Ok.
save(rows, record) ==
    IF HasHash(rows, record.params_hash) THEN [rows |-> rows, ok |-> TRUE]
    ELSE [rows |-> Append(rows, record), ok |-> TRUE]

\* ------------------------------------------------------------------ state
VARIABLES
    progress,   \* the shared DiscoveryProgress
    runners,    \* the spawned runner tasks: locals and position of each
    rows,       \* the discovery_backtests table
    starter,    \* the api_start_discovery call serving each request
    poller,     \* an api_discovery_status call and what it has read so far
    requests,   \* the DiscoveryRequests clients send, in order of arrival
    faults,     \* cache calls that may still fail in this behaviour
    last_save,  \* the latest DiscoveryRepository::save call and the table it met
    evaluation, \* one run_generic_backtest call: its inputs and its locals
    scoring,    \* one score_result call: its argument and the score returned
    generation, \* calls of the parameter-space generators and what they return
    composite,  \* one ComboSignalGenerator::on_bar call over its sub-signals
    arbitrage,  \* one GabagoolBacktestEngine::run call: its bars and windows
    fees,       \* one calculate_taker_fee call and the call at the complement price
    cli         \* the cmd_run command: its Ctrl+C handler and its progress loop

\* The state of the web server and its store.
server == <<progress, runners, rows, starter, poller, requests, faults, last_save>>

\* The state of the engine functions followed on their own.
engine == <<evaluation, scoring, generation, composite, arbitrage, fees>>

vars == <<server, engine, cli>>

\* A function that is not being followed.
NotCalled == [pc |-> "none"]

\* No engine function is being followed.
EngineIdle ==
    /\ evaluation = NotCalled
    /\ scoring = NotCalled
    /\ generation = NotCalled
    /\ composite = NotCalled
    /\ arbitrage = NotCalled
    /\ fees = NotCalled

\* The command line is not in use.
NoCli == [pc |-> "none"]

\* DiscoveryProgress::new()
NewProgress ==
    [status |-> "Idle", total_combinations |-> 0, completed |-> 0, skipped |-> 0,
     cancelled |-> FALSE, best_so_far |-> << >>, final_results |-> << >>,
     error_message |-> "None", current_cycle |-> 0, total_tested_all_cycles |-> 0,
     total_new_this_cycle |-> 0, is_continuous |-> FALSE]

\* DiscoveryProgress::is_running(), on a status value.
is_running(status) == status \in Running

Request(symbols, continuous, top_n) ==
    [symbols |-> symbols, days |-> DefaultDays, top_n |-> top_n,
     sizing_mode |-> "Fixed", continuous |-> continuous]

NoRunner == [pc |-> "none"]

\* The locals of a runner task at its first instruction.  Every fetch gets
\* bars of its own (end_time is the wall clock): fetched numbers them.
NewRunner(request, id, earlier) ==
    [pc |-> "fetch", request |-> request, run_id |-> id,
     fetch_i |-> 1, symbol_klines |-> << >>, new_klines |-> << >>, refreshed_at |-> 0,
     grid |-> << >>, all_results |-> << >>, global_idx |-> 0,
     sym_i |-> 1, grid_i |-> 1,
     top_for_refinement |-> << >>, top_i |-> 1,
     refinement_grid |-> << >>, var_i |-> 1,
     cycle |-> 0, cycle_idx |-> 0, days_i |-> 1, sizing_i |-> 1,
     days_list |-> << >>, sizing_list |-> << >>,
     existing |-> << >>, ml_parents |-> << >>,
     \* history, not program state
     after_cancel |-> 0, backtests |-> 0, hits |-> 0, steps |-> 0, missed |-> {},
     earlier |-> earlier, io_faults |-> {}]

\* The tasks that have run to their end (status = Complete on return).
CompletedRuns ==
    {r \in 1..Len(requests) : runners[r].pc = "done" /\ runners[r].how = "complete"}

\* What is kept of a task that has returned.
Returned(t, how) ==
    [pc |-> "done", how |-> how, request |-> t.request, run_id |-> t.run_id,
     after_cancel |-> t.after_cancel, backtests |-> t.backtests, hits |-> t.hits,
     steps |-> t.steps, missed |-> t.missed, earlier |-> t.earlier,
     io_faults |-> t.io_faults]

Live(r) == runners[r].pc \notin {"none", "done"}

\* A runner that never sees the flag.
CancelNeverSeen == FALSE

\* progress.cancelled.load(Ordering::Relaxed), as a runner reads it.
CancelRequested == progress.cancelled

\* update_best_so_far(&all_results, initial_capital, top_n, &progress)
update_best_so_far(p, results, top_n) ==
    [p EXCEPT !.best_so_far = BestOf(results, InitialCapital, top_n)]

\* The every-50-candidates refresh of best_so_far (the 1 ms sleep follows it).
MaybeUpdateBest(p, idx, results, top_n) ==
    IF idx % YieldEvery = 0 THEN update_best_so_far(p, results, top_n) ELSE p

\* ----------------------------------------------------------------- handlers
\* Request i has arrived once the requests before it have.
Arrives(i) ==
    /\ starter[i].pc = "idle"
    /\ IF i = 1 THEN TRUE ELSE starter[i - 1].pc # "idle"

\* api_start_discovery up to its is_running() check: a running scan answers
\* "already running", otherwise the handler goes on to reset().
StartCheck(i) ==
    /\ Arrives(i)
    /\ starter' = [starter EXCEPT ![i] =
                      [pc |-> IF is_running(progress.status) THEN "rejected"
                              ELSE "reset"]]
    /\ UNCHANGED <<progress, runners, rows, poller, requests, faults, last_save, engine, cli>>

\* DiscoveryProgress::reset(), up to completed.store(0).
StartReset(i) ==
    /\ starter[i].pc = "reset"
    /\ progress' = [progress EXCEPT !.status = "FetchingData",
                                    !.total_combinations = 0,
                                    !.completed = 0]
    /\ starter' = [starter EXCEPT ![i] = [pc |-> "spawn"]]
    /\ UNCHANGED <<runners, rows, poller, requests, faults, last_save, engine, cli>>

\* The rest of reset(), and tokio::spawn of the runner the request asks for.
StartSpawn(i) ==
    /\ starter[i].pc = "spawn"
    /\ runners' = [runners EXCEPT ![i] = NewRunner(requests[i], i, CompletedRuns)]
    /\ progress' = [progress EXCEPT !.skipped = 0, !.cancelled = FALSE,
                                    !.best_so_far = << >>, !.final_results = << >>,
                                    !.error_message = "None", !.current_cycle = 0,
                                    !.total_tested_all_cycles = 0,
                                    !.total_new_this_cycle = 0,
                                    !.is_continuous = FALSE]
    /\ starter' = [starter EXCEPT ![i] = [pc |-> "served"]]
    /\ UNCHANGED <<rows, poller, requests, faults, last_save, engine, cli>>

\* api_cancel_discovery
api_cancel_discovery ==
    /\ ~progress.cancelled
    /\ progress' = [progress EXCEPT !.cancelled = TRUE]
    /\ UNCHANGED <<runners, rows, starter, poller, requests, faults, last_save, engine, cli>>

\* api_discovery_status reads the fields one after the other; the runner may
\* write between any two reads.  poller holds what the call has read so far
\* and, once it has answered, the snapshot it returned.
NoPoller ==
    [pc |-> "idle", status |-> "Idle", total |-> 0, completed |-> 0, skipped |-> 0,
     best_so_far |-> << >>, final_results |-> << >>, results |-> << >>,
     error |-> "None", began |-> << >>]

StepsOf(r) == IF runners[r].pc = "none" THEN 0 ELSE runners[r].steps

PollStatus ==
    /\ poller.pc = "idle"
    /\ poller' = [NoPoller EXCEPT !.pc = "total", !.status = progress.status,
                                  !.began = [r \in 1..Len(requests) |-> StepsOf(r)]]
    /\ UNCHANGED <<progress, runners, rows, starter, requests, faults, last_save, engine, cli>>

PollTotal ==
    /\ poller.pc = "total"
    /\ poller' = [poller EXCEPT !.pc = "completed",
                                !.total = progress.total_combinations]
    /\ UNCHANGED <<progress, runners, rows, starter, requests, faults, last_save, engine, cli>>

PollCompleted ==
    /\ poller.pc = "completed"
    /\ poller' = [poller EXCEPT !.pc = "skipped", !.completed = progress.completed]
    /\ UNCHANGED <<progress, runners, rows, starter, requests, faults, last_save, engine, cli>>

PollSkipped ==
    /\ poller.pc = "skipped"
    /\ poller' = [poller EXCEPT !.pc = "best_so_far", !.skipped = progress.skipped]
    /\ UNCHANGED <<progress, runners, rows, starter, requests, faults, last_save, engine, cli>>

PollBest ==
    /\ poller.pc = "best_so_far"
    /\ poller' = [poller EXCEPT !.pc = "final_results",
                                !.best_so_far = progress.best_so_far]
    /\ UNCHANGED <<progress, runners, rows, starter, requests, faults, last_save, engine, cli>>

\* final_results, and the `results` alias of the answer.
PollFinal ==
    /\ poller.pc = "final_results"
    /\ poller' = [poller EXCEPT
            !.pc = "error_message",
            !.final_results = progress.final_results,
            !.results = IF poller.status = "Complete" THEN progress.final_results
                        ELSE poller.best_so_far]
    /\ UNCHANGED <<progress, runners, rows, starter, requests, faults, last_save, engine, cli>>

\* error_message, the last read this model follows.
PollError ==
    /\ poller.pc = "error_message"
    /\ poller' = [poller EXCEPT !.pc = "responded", !.error = progress.error_message]
    /\ UNCHANGED <<progress, runners, rows, starter, requests, faults, last_save, engine, cli>>

\* The client has the answer.
PollAnswered ==
    /\ poller.pc = "responded"
    /\ poller' = NoPoller
    /\ UNCHANGED <<progress, runners, rows, starter, requests, faults, last_save, engine, cli>>

\* ------------------------------------------------------------ runner tasks
\* One step of task r, which leaves it as t.
SetRunner(r, t) ==
    runners' = [runners EXCEPT ![r] = [t EXCEPT !.steps = runners[r].steps + 1]]

\* A cache call fails (Err) only while the failure budget lasts.
FaultChoices == IF faults > 0 THEN {FALSE, TRUE} ELSE {FALSE}
SpendFault(fault) ==
    faults' = IF fault THEN faults - 1 ELSE faults

\* A lookup whose failure goes unnoticed: the row is served all the same.
LookupUnchecked(hash, fault) == get_by_hash(rows, hash)

\* `if let Ok(Some(existing)) = repo.get_by_hash(&hash).await`: what the
\* runner keeps of the lookup; an Err is a miss.
Lookup(hash, fault) == IF fault THEN << >> ELSE get_by_hash(rows, hash)

\* `let _ = repo.save(&record).await`: an I/O failure writes nothing.
SaveResult(record, fault) ==
    IF fault THEN [rows |-> rows, ok |-> FALSE] ELSE save(rows, record)

\* What is noted of a save call: the record, the table before it, whether it
\* returned Ok.
NoSave == [saved |-> FALSE]

SaveCall(record, fault) ==
    [saved |-> TRUE, record |-> record, before |-> rows,
     ok |-> SaveResult(record, fault).ok]

\* The history of the task notes each cache call that failed: which call, and
\* the place in the result list of the candidate it was made for.
NotedFaults(t, call, fault) ==
    IF fault THEN t.io_faults \cup {<<call, Len(t.all_results) + 1>>}
    ELSE t.io_faults

\* A candidate starts being processed: the history of the task notes whether
\* the cancelled flag was already set, and whether the cache served it.
Begin(t, existing) ==
    [t EXCEPT !.existing = existing,
              !.after_cancel = IF progress.cancelled THEN t.after_cancel + 1
                               ELSE t.after_cancel]

\* The window fetched: request.days, or the longest of days_variants.
FetchDays(request) ==
    IF request.continuous THEN DaysVariants[Len(DaysVariants)] ELSE request.days

\* is_continuous.store(true) opens the continuous runner.
Entered(p, t) == [p EXCEPT !.is_continuous = p.is_continuous \/ t.request.continuous]

\* Phase 0 of both runners: one iteration of `for symbol in &request.symbols`.
\* A cancelled flag makes the task return at once, the status left as it is.
FetchCancelled(r) ==
    /\ runners[r].pc = "fetch"
    /\ runners[r].fetch_i <= Len(runners[r].request.symbols)
    /\ CancelRequested
    /\ SetRunner(r, Returned(runners[r], "cancelled_in_fetch"))
    /\ progress' = Entered(progress, runners[r])
    /\ UNCHANGED <<rows, starter, poller, requests, faults, last_save, engine, cli>>

FetchSymbol(r) ==
    /\ runners[r].pc = "fetch"
    /\ runners[r].fetch_i <= Len(runners[r].request.symbols)
    /\ ~CancelRequested
    /\ LET t == runners[r]
           symbol == t.request.symbols[t.fetch_i]
       IN \E ok \in BOOLEAN :
            SetRunner(r, [t EXCEPT
                !.fetch_i = t.fetch_i + 1,
                !.symbol_klines =
                    IF ok THEN Append(t.symbol_klines,
                                      Klines(symbol, t.run_id, FetchDays(t.request)))
                    ELSE t.symbol_klines])
    /\ progress' = Entered(progress, runners[r])
    /\ UNCHANGED <<rows, starter, poller, requests, faults, last_save, engine, cli>>

\* `if symbol_klines.is_empty()`: the message is written, then the status.
FetchFailedMessage(r) ==
    /\ runners[r].pc = "fetch"
    /\ runners[r].fetch_i > Len(runners[r].request.symbols)
    /\ runners[r].symbol_klines = << >>
    /\ progress' = [Entered(progress, runners[r]) EXCEPT !.error_message =
                        "Failed to fetch klines for any symbol"]
    /\ SetRunner(r, [runners[r] EXCEPT !.pc = "fetch_failed"])
    /\ UNCHANGED <<rows, starter, poller, requests, faults, last_save, engine, cli>>

FetchFailedStatus(r) ==
    /\ runners[r].pc = "fetch_failed"
    /\ progress' = [progress EXCEPT !.status = "Error"]
    /\ SetRunner(r, Returned(runners[r], "error"))
    /\ UNCHANGED <<rows, starter, poller, requests, faults, last_save, engine, cli>>

\* ---- run_discovery, Phase 1
\* total_all = |grid| * |symbols fetched| + 20 * 27
Phase1Start(r) ==
    /\ runners[r].pc = "fetch"
    /\ ~runners[r].request.continuous
    /\ runners[r].fetch_i > Len(runners[r].request.symbols)
    /\ runners[r].symbol_klines # << >>
    /\ LET t == runners[r]
           grid == generate_phase1_grid
           total_phase1 == Len(grid) * Len(t.symbol_klines)
           estimated_phase2 == RefineTop * EstimatedVariants
       IN /\ progress' = [progress EXCEPT
                            !.status = "Phase1BroadScan",
                            !.total_combinations = total_phase1 + estimated_phase2]
          /\ SetRunner(r, [t EXCEPT !.pc = "p1", !.grid = grid,
                                    !.sym_i = 1, !.grid_i = 1])
    /\ UNCHANGED <<rows, starter, poller, requests, faults, last_save, engine, cli>>

Phase1More(t) == t.sym_i <= Len(t.symbol_klines)

\* The end of one iteration of `for strategy_type in &grid`.
Phase1Advance(t) ==
    IF t.grid_i < Len(t.grid)
    THEN [t EXCEPT !.pc = "p1", !.grid_i = t.grid_i + 1, !.existing = << >>]
    ELSE [t EXCEPT !.pc = "p1", !.grid_i = 1, !.sym_i = t.sym_i + 1,
                   !.existing = << >>]

Phase1Hash(t) ==
    compute_params_hash(t.grid[t.grid_i], t.symbol_klines[t.sym_i].symbol,
                        t.request.days, t.request.sizing_mode)

Phase1Cancelled(r) ==
    /\ runners[r].pc = "p1"
    /\ Phase1More(runners[r])
    /\ CancelRequested
    /\ progress' = [progress EXCEPT !.status = "Idle"]
    /\ SetRunner(r, Returned(runners[r], "cancelled"))
    /\ UNCHANGED <<rows, starter, poller, requests, faults, last_save, engine, cli>>

Phase1Lookup(r) ==
    /\ runners[r].pc = "p1"
    /\ Phase1More(runners[r])
    /\ ~CancelRequested
    /\ \E fault \in FaultChoices :
         LET t == runners[r]
             existing == Lookup(Phase1Hash(t), fault)
         IN /\ SetRunner(r, [Begin(t, existing) EXCEPT
                                !.io_faults = NotedFaults(t, "read", fault),
                                !.pc = IF existing # << >> THEN "p1_hit"
                                       ELSE "p1_miss"])
            /\ SpendFault(fault)
    /\ UNCHANGED <<progress, rows, starter, poller, requests, last_save, engine, cli>>

\* A cache hit that pushes nothing.
Phase1HitUnpushed(r) ==
    /\ runners[r].pc = "p1_hit"
    /\ LET t == runners[r]
       IN /\ SetRunner(r, [t EXCEPT
                !.pc = "p1_skipped",
                !.global_idx = t.global_idx + 1,
                !.hits = t.hits + 1])
          /\ progress' = [progress EXCEPT !.completed = t.global_idx + 1]
    /\ UNCHANGED <<rows, starter, poller, requests, faults, last_save, engine, cli>>

\* The cache served the candidate: push, global_idx += 1, completed.store.
Phase1Hit(r) ==
    /\ runners[r].pc = "p1_hit"
    /\ LET t == runners[r]
       IN /\ SetRunner(r, [t EXCEPT
                !.pc = "p1_skipped",
                !.all_results = Append(t.all_results, record_to_result(t.existing[1])),
                !.global_idx = t.global_idx + 1,
                !.hits = t.hits + 1])
          /\ progress' = [progress EXCEPT !.completed = t.global_idx + 1]
    /\ UNCHANGED <<rows, starter, poller, requests, faults, last_save, engine, cli>>

\* ... then skipped.fetch_add(1), the every-50 refresh, `continue`.
Phase1Skipped(r) ==
    /\ runners[r].pc = "p1_skipped"
    /\ LET t == runners[r]
       IN /\ progress' = MaybeUpdateBest(
                            [progress EXCEPT !.skipped = progress.skipped + 1],
                            t.global_idx, t.all_results, t.request.top_n)
          /\ SetRunner(r, Phase1Advance(t))
    /\ UNCHANGED <<rows, starter, poller, requests, faults, last_save, engine, cli>>

\* A miss: backtest, save, push, global_idx += 1, completed.store, refresh.
Phase1Miss(r) ==
    /\ runners[r].pc = "p1_miss"
    /\ \E fault \in FaultChoices :
         LET t == runners[r]
             kl == t.symbol_klines[t.sym_i]
             result == run_single_backtest(t.grid[t.grid_i], kl, kl.symbol,
                                           t.request.sizing_mode)
             record == result_to_record(result, Phase1Hash(t), t.run_id, "phase1",
                                        t.request.days)
             results == Append(t.all_results, result)
         IN /\ rows' = SaveResult(record, fault).rows
            /\ last_save' = SaveCall(record, fault)
            /\ SpendFault(fault)
            /\ progress' = MaybeUpdateBest(
                              [progress EXCEPT !.completed = t.global_idx + 1],
                              t.global_idx + 1, results, t.request.top_n)
            /\ SetRunner(r, Phase1Advance([t EXCEPT
                  !.all_results = results,
                  !.global_idx = t.global_idx + 1,
                  !.backtests = t.backtests + 1,
                  !.missed = t.missed \cup {Phase1Hash(t)},
                  !.io_faults = NotedFaults(t, "save", fault)]))
    /\ UNCHANGED <<starter, poller, requests, engine, cli>>

\* After the loops: best_so_far, status = Phase2Refinement, the top 20.
Phase1Done(r) ==
    /\ runners[r].pc = "p1"
    /\ ~Phase1More(runners[r])
    /\ LET t == runners[r]
       IN /\ progress' = [update_best_so_far(progress, t.all_results, t.request.top_n)
                            EXCEPT !.status = "Phase2Refinement"]
          /\ SetRunner(r, [t EXCEPT
                !.pc = "p2",
                !.top_for_refinement = TopForRefinement(t.all_results, InitialCapital),
                !.top_i = 1])
    /\ UNCHANGED <<rows, starter, poller, requests, faults, last_save, engine, cli>>

\* ---- run_discovery, Phase 2
\* symbol_klines.iter().find(|(s, _)| *s == symbol): << >> is None.
FindKlines(symbol_klines, symbol) ==
    LET hits == {i \in 1..Len(symbol_klines) : symbol_klines[i].symbol = symbol}
    IN IF hits = {} THEN << >>
       ELSE <<symbol_klines[CHOOSE i \in hits : \A j \in hits : i <= j]>>

Phase2More(t) == t.top_i <= Len(t.top_for_refinement)

Phase2Cancelled(r) ==
    /\ runners[r].pc = "p2"
    /\ Phase2More(runners[r])
    /\ CancelRequested
    /\ progress' = [progress EXCEPT !.status = "Idle"]
    /\ SetRunner(r, Returned(runners[r], "cancelled"))
    /\ UNCHANGED <<rows, starter, poller, requests, faults, last_save, engine, cli>>

\* One `for top_result in &top_for_refinement` header: the cancellation check
\* passed, the refinement grid is built, the bars of the symbol are found
\* (`None => continue`).
Phase2Top(r) ==
    /\ runners[r].pc = "p2"
    /\ Phase2More(runners[r])
    /\ ~CancelRequested
    /\ LET t == runners[r]
           top_result == t.top_for_refinement[t.top_i]
           klines_opt == FindKlines(t.symbol_klines, top_result.symbol)
       IN SetRunner(r,
            IF klines_opt = << >>
            THEN [t EXCEPT !.top_i = t.top_i + 1]
            ELSE [t EXCEPT !.pc = "p2_variant",
                           !.refinement_grid =
                               generate_refinement_grid(top_result.strategy_type),
                           !.var_i = 1])
    /\ UNCHANGED <<progress, rows, starter, poller, requests, faults, last_save, engine, cli>>

\* The end of one iteration of `for variant in &refinement_grid`.
Phase2Advance(t) ==
    IF t.var_i < Len(t.refinement_grid)
    THEN [t EXCEPT !.pc = "p2_variant", !.var_i = t.var_i + 1, !.existing = << >>]
    ELSE [t EXCEPT !.pc = "p2", !.top_i = t.top_i + 1, !.existing = << >>]

Phase2Hash(t) ==
    compute_params_hash(t.refinement_grid[t.var_i],
                        t.top_for_refinement[t.top_i].symbol,
                        t.request.days, t.request.sizing_mode)

\* No cancellation check here: the variants of one top result run through.
Phase2Lookup(r) ==
    /\ runners[r].pc = "p2_variant"
    /\ \E fault \in FaultChoices :
         LET t == runners[r]
             existing == Lookup(Phase2Hash(t), fault)
         IN /\ SetRunner(r, [Begin(t, existing) EXCEPT
                                !.io_faults = NotedFaults(t, "read", fault),
                                !.pc = IF existing # << >> THEN "p2_hit"
                                       ELSE "p2_miss"])
            /\ SpendFault(fault)
    /\ UNCHANGED <<progress, rows, starter, poller, requests, last_save, engine, cli>>

Phase2Hit(r) ==
    /\ runners[r].pc = "p2_hit"
    /\ LET t == runners[r]
       IN /\ SetRunner(r, [t EXCEPT
                !.pc = "p2_skipped",
                !.all_results = Append(t.all_results, record_to_result(t.existing[1])),
                !.global_idx = t.global_idx + 1,
                !.hits = t.hits + 1])
          /\ progress' = [progress EXCEPT !.completed = t.global_idx + 1]
    /\ UNCHANGED <<rows, starter, poller, requests, faults, last_save, engine, cli>>

Phase2Skipped(r) ==
    /\ runners[r].pc = "p2_skipped"
    /\ LET t == runners[r]
       IN /\ progress' = MaybeUpdateBest(
                            [progress EXCEPT !.skipped = progress.skipped + 1],
                            t.global_idx, t.all_results, t.request.top_n)
          /\ SetRunner(r, Phase2Advance(t))
    /\ UNCHANGED <<rows, starter, poller, requests, faults, last_save, engine, cli>>

Phase2Miss(r) ==
    /\ runners[r].pc = "p2_miss"
    /\ \E fault \in FaultChoices :
         LET t == runners[r]
             top_result == t.top_for_refinement[t.top_i]
             klines == FindKlines(t.symbol_klines, top_result.symbol)[1]
             result == run_single_backtest(t.refinement_grid[t.var_i], klines,
                                           top_result.symbol, t.request.sizing_mode)
             record == result_to_record(result, Phase2Hash(t), t.run_id, "phase2",
                                        t.request.days)
             results == Append(t.all_results, result)
         IN /\ rows' = SaveResult(record, fault).rows
            /\ last_save' = SaveCall(record, fault)
            /\ SpendFault(fault)
            /\ progress' = MaybeUpdateBest(
                              [progress EXCEPT !.completed = t.global_idx + 1],
                              t.global_idx + 1, results, t.request.top_n)
            /\ SetRunner(r, Phase2Advance([t EXCEPT
                  !.all_results = results,
                  !.global_idx = t.global_idx + 1,
                  !.backtests = t.backtests + 1,
                  !.missed = t.missed \cup {Phase2Hash(t)},
                  !.io_faults = NotedFaults(t, "save", fault)]))
    /\ UNCHANGED <<starter, poller, requests, engine, cli>>

\* ---- run_discovery, Finalize
\* total_combinations.store(global_idx); completed.store(global_idx)
FinalizeCounters(r) ==
    /\ runners[r].pc = "p2"
    /\ ~Phase2More(runners[r])
    /\ progress' = [progress EXCEPT !.total_combinations = runners[r].global_idx,
                                    !.completed = runners[r].global_idx]
    /\ SetRunner(r, [runners[r] EXCEPT !.pc = "final_results"])
    /\ UNCHANGED <<rows, starter, poller, requests, faults, last_save, engine, cli>>

FinalizeResults(r) ==
    /\ runners[r].pc = "final_results"
    /\ progress' = [progress EXCEPT !.final_results =
                        FinalResults(runners[r].all_results, InitialCapital,
                                     runners[r].request.top_n)]
    /\ SetRunner(r, [runners[r] EXCEPT !.pc = "final_status"])
    /\ UNCHANGED <<rows, starter, poller, requests, faults, last_save, engine, cli>>

FinalizeStatus(r) ==
    /\ runners[r].pc = "final_status"
    /\ progress' = [progress EXCEPT !.status = "Complete"]
    /\ SetRunner(r, Returned(runners[r], "complete"))
    /\ UNCHANGED <<rows, starter, poller, requests, faults, last_save, engine, cli>>

\* ---- run_continuous_discovery, the head of a cycle
\* `loop { if cancelled { break } ...`: the break leads to the final state.
CycleTopCancelled(r) ==
    /\ runners[r].pc = "cycle"
    /\ CancelRequested
    /\ SetRunner(r, [runners[r] EXCEPT !.pc = "final_best"])
    /\ UNCHANGED <<progress, rows, starter, poller, requests, faults, last_save, engine, cli>>

\* More than six hours since the last fetch (the clock is the environment's):
\* status = FetchingData, then the symbols are fetched again.
RefreshStart(r) ==
    /\ runners[r].pc = "cycle"
    /\ ~CancelRequested
    /\ runners[r].cycle > runners[r].refreshed_at
    /\ runners[r].cycle < FirstMlCycle
    /\ progress' = [progress EXCEPT !.status = "FetchingData"]
    /\ SetRunner(r, [runners[r] EXCEPT !.pc = "refresh", !.fetch_i = 1,
                                       !.new_klines = << >>,
                                       !.refreshed_at = runners[r].cycle])
    /\ UNCHANGED <<rows, starter, poller, requests, faults, last_save, engine, cli>>

RefreshSymbol(r) ==
    /\ runners[r].pc = "refresh"
    /\ runners[r].fetch_i <= Len(runners[r].request.symbols)
    /\ ~CancelRequested
    /\ LET t == runners[r]
           symbol == t.request.symbols[t.fetch_i]
           fetched == t.run_id + Len(requests) * t.refreshed_at
       IN \E ok \in BOOLEAN :
            SetRunner(r, [t EXCEPT
                !.fetch_i = t.fetch_i + 1,
                !.new_klines =
                    IF ok THEN Append(t.new_klines,
                                      Klines(symbol, fetched, FetchDays(t.request)))
                    ELSE t.new_klines])
    /\ UNCHANGED <<progress, rows, starter, poller, requests, faults, last_save, engine, cli>>

\* The end of the refresh (the symbols are through, or `break` on the
\* cancelled flag): new bars replace the old ones unless none came.
RefreshDone(r) ==
    /\ runners[r].pc = "refresh"
    /\ runners[r].fetch_i > Len(runners[r].request.symbols) \/ CancelRequested
    /\ LET t == runners[r]
       IN SetRunner(r, [t EXCEPT
            !.pc = "cycle_info",
            !.symbol_klines = IF t.new_klines # << >> THEN t.new_klines
                              ELSE t.symbol_klines,
            !.new_klines = << >>])
    /\ UNCHANGED <<progress, rows, starter, poller, requests, faults, last_save, engine, cli>>

\* No refresh is due.
CycleTop(r) ==
    /\ runners[r].pc = "cycle"
    /\ ~CancelRequested
    /\ runners[r].cycle <= FirstMlCycle
    /\ SetRunner(r, [runners[r] EXCEPT !.pc = "cycle_info"])
    /\ UNCHANGED <<progress, rows, starter, poller, requests, faults, last_save, engine, cli>>

\* The status a cycle runs under.
CycleStatus(cycle) ==
    IF cycle = 0 THEN "Phase1BroadScan"
    ELSE IF cycle = 1 THEN "Phase2Refinement" ELSE "Phase3Exploration"

\* current_cycle.store, total_new_this_cycle.store(0), the status, the grid
\* and the work list: grid x symbols x days x sizing.
CycleInfo(r) ==
    /\ runners[r].pc = "cycle_info"
    /\ runners[r].cycle < FirstMlCycle
    /\ LET t == runners[r]
       IN /\ progress' = [progress EXCEPT !.current_cycle = t.cycle,
                                          !.total_new_this_cycle = 0,
                                          !.status = CycleStatus(t.cycle)]
          /\ SetRunner(r, [t EXCEPT
                !.pc = "cycle_total",
                !.grid = generate_exploratory_grid(t.cycle),
                !.sizing_list = IF t.cycle = 0 THEN <<t.request.sizing_mode>>
                                ELSE SizingModes,
                !.days_list = IF t.cycle = 0 THEN <<t.request.days>>
                              ELSE DaysVariants])
    /\ UNCHANGED <<rows, starter, poller, requests, faults, last_save, engine, cli>>

\* The same stores in a cycle >= 3, whose grid generate_ml_guided_grid builds
\* from all_results: the task is followed up to the choice of the parents.
MlCycleInfo(r) ==
    /\ runners[r].pc = "cycle_info"
    /\ runners[r].cycle >= FirstMlCycle
    /\ LET t == runners[r]
       IN /\ progress' = [progress EXCEPT !.current_cycle = t.cycle,
                                          !.total_new_this_cycle = 0,
                                          !.status = CycleStatus(t.cycle)]
          /\ SetRunner(r, [t EXCEPT
                !.pc = "ml_grid",
                !.ml_parents = ExploitationParents(t.all_results)])
    /\ UNCHANGED <<rows, starter, poller, requests, faults, last_save, engine, cli>>

\* total_combinations.store(total_combos)
CycleTotal(r) ==
    /\ runners[r].pc = "cycle_total"
    /\ LET t == runners[r]
           total_combos == Len(t.grid) * Len(t.symbol_klines) * Len(t.days_list)
                           * Len(t.sizing_list)
       IN progress' = [progress EXCEPT !.total_combinations = total_combos]
    /\ SetRunner(r, [runners[r] EXCEPT !.pc = "cycle_completed"])
    /\ UNCHANGED <<rows, starter, poller, requests, faults, last_save, engine, cli>>

\* completed.store(0)
CycleCompleted(r) ==
    /\ runners[r].pc = "cycle_completed"
    /\ progress' = [progress EXCEPT !.completed = 0]
    /\ SetRunner(r, [runners[r] EXCEPT !.pc = "cycle_skipped"])
    /\ UNCHANGED <<rows, starter, poller, requests, faults, last_save, engine, cli>>

\* skipped.store(0); cycle_idx = 0; the four nested loops begin.
CycleSkipped(r) ==
    /\ runners[r].pc = "cycle_skipped"
    /\ progress' = [progress EXCEPT !.skipped = 0]
    /\ SetRunner(r, [runners[r] EXCEPT !.pc = "work", !.cycle_idx = 0,
                                       !.sym_i = 1, !.days_i = 1,
                                       !.sizing_i = 1, !.grid_i = 1])
    /\ UNCHANGED <<rows, starter, poller, requests, faults, last_save, engine, cli>>

\* ---- run_continuous_discovery, the work loop of a cycle
WorkMore(t) == t.sym_i <= Len(t.symbol_klines)

\* The end of one iteration of the innermost of
\* `for symbol { for days { for sizing_mode { for strategy_type {`.
WorkAdvance(t) ==
    LET u == [t EXCEPT !.pc = "work", !.existing = << >>]
    IN IF t.grid_i < Len(t.grid) THEN [u EXCEPT !.grid_i = t.grid_i + 1]
       ELSE IF t.sizing_i < Len(t.sizing_list)
            THEN [u EXCEPT !.grid_i = 1, !.sizing_i = t.sizing_i + 1]
       ELSE IF t.days_i < Len(t.days_list)
            THEN [u EXCEPT !.grid_i = 1, !.sizing_i = 1, !.days_i = t.days_i + 1]
       ELSE [u EXCEPT !.grid_i = 1, !.sizing_i = 1, !.days_i = 1,
                      !.sym_i = t.sym_i + 1]

WorkHash(t) ==
    compute_params_hash(t.grid[t.grid_i], t.symbol_klines[t.sym_i].symbol,
                        t.days_list[t.days_i], t.sizing_list[t.sizing_i])

\* The in-loop cancellation: status = Complete comes first ...
WorkCancelled(r) ==
    /\ runners[r].pc = "work"
    /\ WorkMore(runners[r])
    /\ CancelRequested
    /\ progress' = [progress EXCEPT !.status = "Complete"]
    /\ SetRunner(r, [runners[r] EXCEPT !.pc = "cancel_best"])
    /\ UNCHANGED <<rows, starter, poller, requests, faults, last_save, engine, cli>>

\* ... then update_best_so_far ...
WorkCancelledBest(r) ==
    /\ runners[r].pc = "cancel_best"
    /\ progress' = update_best_so_far(progress, runners[r].all_results,
                                      runners[r].request.top_n)
    /\ SetRunner(r, [runners[r] EXCEPT !.pc = "cancel_results"])
    /\ UNCHANGED <<rows, starter, poller, requests, faults, last_save, engine, cli>>

\* ... then final_results = best_so_far, and the task returns.
WorkCancelledResults(r) ==
    /\ runners[r].pc = "cancel_results"
    /\ progress' = [progress EXCEPT !.final_results = progress.best_so_far]
    /\ SetRunner(r, Returned(runners[r], "cancelled"))
    /\ UNCHANGED <<rows, starter, poller, requests, faults, last_save, engine, cli>>

WorkLookup(r) ==
    /\ runners[r].pc = "work"
    /\ WorkMore(runners[r])
    /\ ~CancelRequested
    /\ \E fault \in FaultChoices :
         LET t == runners[r]
             existing == Lookup(WorkHash(t), fault)
         IN /\ SetRunner(r, [Begin(t, existing) EXCEPT
                                !.io_faults = NotedFaults(t, "read", fault),
                                !.pc = IF existing # << >> THEN "work_hit"
                                       ELSE "work_miss"])
            /\ SpendFault(fault)
    /\ UNCHANGED <<progress, rows, starter, poller, requests, last_save, engine, cli>>

\* push, cycle_idx += 1, completed.store(cycle_idx)
WorkHit(r) ==
    /\ runners[r].pc = "work_hit"
    /\ LET t == runners[r]
       IN /\ SetRunner(r, [t EXCEPT
                !.pc = "work_skipped",
                !.all_results = Append(t.all_results, record_to_result(t.existing[1])),
                !.cycle_idx = t.cycle_idx + 1,
                !.hits = t.hits + 1])
          /\ progress' = [progress EXCEPT !.completed = t.cycle_idx + 1]
    /\ UNCHANGED <<rows, starter, poller, requests, faults, last_save, engine, cli>>

\* skipped.fetch_add(1), total_tested_all_cycles.fetch_add(1), the refresh.
WorkSkipped(r) ==
    /\ runners[r].pc = "work_skipped"
    /\ LET t == runners[r]
       IN /\ progress' = MaybeUpdateBest(
                [progress EXCEPT
                    !.skipped = progress.skipped + 1,
                    !.total_tested_all_cycles = progress.total_tested_all_cycles + 1],
                t.cycle_idx, t.all_results, t.request.top_n)
          /\ SetRunner(r, WorkAdvance(t))
    /\ UNCHANGED <<rows, starter, poller, requests, faults, last_save, engine, cli>>

WorkMiss(r) ==
    /\ runners[r].pc = "work_miss"
    /\ \E fault \in FaultChoices :
         LET t == runners[r]
             days == t.days_list[t.days_i]
             full_klines == t.symbol_klines[t.sym_i]
             result == run_single_backtest(t.grid[t.grid_i],
                                           slice_klines_to_days(full_klines, days),
                                           full_klines.symbol,
                                           t.sizing_list[t.sizing_i])
             record == result_to_record(result, WorkHash(t), t.run_id,
                                        "cycle" \o ToString(t.cycle), days)
             results == Append(t.all_results, result)
         IN /\ rows' = SaveResult(record, fault).rows
            /\ last_save' = SaveCall(record, fault)
            /\ SpendFault(fault)
            /\ progress' = MaybeUpdateBest(
                  [progress EXCEPT
                      !.completed = t.cycle_idx + 1,
                      !.total_new_this_cycle = progress.total_new_this_cycle + 1,
                      !.total_tested_all_cycles = progress.total_tested_all_cycles + 1],
                  t.cycle_idx + 1, results, t.request.top_n)
            /\ SetRunner(r, WorkAdvance([t EXCEPT
                  !.all_results = results,
                  !.cycle_idx = t.cycle_idx + 1,
                  !.backtests = t.backtests + 1,
                  !.missed = t.missed \cup {WorkHash(t)},
                  !.io_faults = NotedFaults(t, "save", fault)]))
    /\ UNCHANGED <<starter, poller, requests, engine, cli>>

\* After the loops of cycle 0: status = Phase2Refinement and the top 20.
WorkDoneRefine(r) ==
    /\ runners[r].pc = "work"
    /\ ~WorkMore(runners[r])
    /\ runners[r].cycle = 0
    /\ progress' = [progress EXCEPT !.status = "Phase2Refinement"]
    /\ SetRunner(r, [runners[r] EXCEPT
            !.pc = "refine",
            !.top_for_refinement =
                TopForRefinement(runners[r].all_results, InitialCapital),
            !.top_i = 1])
    /\ UNCHANGED <<rows, starter, poller, requests, faults, last_save, engine, cli>>

\* After the loops of a later cycle.
WorkDone(r) ==
    /\ runners[r].pc = "work"
    /\ ~WorkMore(runners[r])
    /\ runners[r].cycle # 0
    /\ SetRunner(r, [runners[r] EXCEPT !.pc = "cycle_end"])
    /\ UNCHANGED <<progress, rows, starter, poller, requests, faults, last_save, engine, cli>>

\* ---- run_continuous_discovery, the refinement of cycle 0
RefineMore(t) == t.top_i <= Len(t.top_for_refinement)

\* `if cancelled { break }`, or the top results are through.
RefineLeave(r) ==
    /\ runners[r].pc = "refine"
    /\ ~RefineMore(runners[r]) \/ CancelRequested
    /\ SetRunner(r, [runners[r] EXCEPT !.pc = "cycle_end"])
    /\ UNCHANGED <<progress, rows, starter, poller, requests, faults, last_save, engine, cli>>

RefineTopResult(r) ==
    /\ runners[r].pc = "refine"
    /\ RefineMore(runners[r])
    /\ ~CancelRequested
    /\ LET t == runners[r]
           top_result == t.top_for_refinement[t.top_i]
           klines_opt == FindKlines(t.symbol_klines, top_result.symbol)
       IN SetRunner(r,
            IF klines_opt = << >>
            THEN [t EXCEPT !.top_i = t.top_i + 1]
            ELSE [t EXCEPT !.pc = "refine_variant",
                           !.refinement_grid =
                               generate_refinement_grid(top_result.strategy_type),
                           !.var_i = 1])
    /\ UNCHANGED <<progress, rows, starter, poller, requests, faults, last_save, engine, cli>>

RefineAdvance(t) ==
    IF t.var_i < Len(t.refinement_grid)
    THEN [t EXCEPT !.pc = "refine_variant", !.var_i = t.var_i + 1, !.existing = << >>]
    ELSE [t EXCEPT !.pc = "refine", !.top_i = t.top_i + 1, !.existing = << >>]

RefineLookup(r) ==
    /\ runners[r].pc = "refine_variant"
    /\ \E fault \in FaultChoices :
         LET t == runners[r]
             existing == Lookup(Phase2Hash(t), fault)
         IN /\ SetRunner(r, [Begin(t, existing) EXCEPT
                                !.io_faults = NotedFaults(t, "read", fault),
                                !.pc = IF existing # << >> THEN "refine_hit"
                                       ELSE "refine_miss"])
            /\ SpendFault(fault)
    /\ UNCHANGED <<progress, rows, starter, poller, requests, last_save, engine, cli>>

\* push, skipped.fetch_add(1), total_tested_all_cycles.fetch_add(1): completed
\* is not touched here.
RefineHit(r) ==
    /\ runners[r].pc = "refine_hit"
    /\ LET t == runners[r]
       IN /\ progress' = [progress EXCEPT
                !.skipped = progress.skipped + 1,
                !.total_tested_all_cycles = progress.total_tested_all_cycles + 1]
          /\ SetRunner(r, RefineAdvance([t EXCEPT
                !.all_results = Append(t.all_results, record_to_result(t.existing[1])),
                !.hits = t.hits + 1]))
    /\ UNCHANGED <<rows, starter, poller, requests, faults, last_save, engine, cli>>

RefineMiss(r) ==
    /\ runners[r].pc = "refine_miss"
    /\ \E fault \in FaultChoices :
         LET t == runners[r]
             top_result == t.top_for_refinement[t.top_i]
             full_kl == FindKlines(t.symbol_klines, top_result.symbol)[1]
             result == run_single_backtest(t.refinement_grid[t.var_i],
                                           slice_klines_to_days(full_kl, t.request.days),
                                           top_result.symbol, t.request.sizing_mode)
             record == result_to_record(result, Phase2Hash(t), t.run_id, "phase2",
                                        t.request.days)
         IN /\ rows' = SaveResult(record, fault).rows
            /\ last_save' = SaveCall(record, fault)
            /\ SpendFault(fault)
            /\ progress' = [progress EXCEPT
                  !.total_new_this_cycle = progress.total_new_this_cycle + 1,
                  !.total_tested_all_cycles = progress.total_tested_all_cycles + 1]
            /\ SetRunner(r, RefineAdvance([t EXCEPT
                  !.all_results = Append(t.all_results, result),
                  !.backtests = t.backtests + 1,
                  !.missed = t.missed \cup {Phase2Hash(t)},
                  !.io_faults = NotedFaults(t, "save", fault)]))
    /\ UNCHANGED <<starter, poller, requests, engine, cli>>

\* update_best_so_far at the end of the cycle; cycle += 1; the 100 ms pause.
CycleEnd(r) ==
    /\ runners[r].pc = "cycle_end"
    /\ progress' = update_best_so_far(progress, runners[r].all_results,
                                      runners[r].request.top_n)
    /\ SetRunner(r, [runners[r] EXCEPT !.pc = "cycle",
                                       !.cycle = runners[r].cycle + 1])
    /\ UNCHANGED <<rows, starter, poller, requests, faults, last_save, engine, cli>>

\* ---- run_continuous_discovery, the final state after `break`
FinalBest(r) ==
    /\ runners[r].pc = "final_best"
    /\ progress' = update_best_so_far(progress, runners[r].all_results,
                                      runners[r].request.top_n)
    /\ SetRunner(r, [runners[r] EXCEPT !.pc = "final_copy"])
    /\ UNCHANGED <<rows, starter, poller, requests, faults, last_save, engine, cli>>

FinalCopy(r) ==
    /\ runners[r].pc = "final_copy"
    /\ progress' = [progress EXCEPT !.final_results = progress.best_so_far]
    /\ SetRunner(r, [runners[r] EXCEPT !.pc = "final_complete"])
    /\ UNCHANGED <<rows, starter, poller, requests, faults, last_save, engine, cli>>

FinalComplete(r) ==
    /\ runners[r].pc = "final_complete"
    /\ progress' = [progress EXCEPT !.status = "Complete"]
    /\ SetRunner(r, Returned(runners[r], "cancelled"))
    /\ UNCHANGED <<rows, starter, poller, requests, faults, last_save, engine, cli>>

\* The continuous runner leaves Phase 0 for its first cycle.
CyclesStart(r) ==
    /\ runners[r].pc = "fetch"
    /\ runners[r].request.continuous
    /\ runners[r].fetch_i > Len(runners[r].request.symbols)
    /\ runners[r].symbol_klines # << >>
    /\ SetRunner(r, [runners[r] EXCEPT !.pc = "cycle", !.cycle = 0])
    /\ UNCHANGED <<progress, rows, starter, poller, requests, faults, last_save, engine, cli>>

\* ------------------------------------------------------------ specifications
\* Request i is served by handler i and, once accepted, run by task i.
Tasks == 1..Len(requests)

\* The server after main() built its state, with the requests to come and
\* the table the database file holds.
InitServer(reqs, table) ==
    /\ progress = NewProgress
    /\ requests = reqs
    /\ runners = [r \in 1..Len(reqs) |-> NoRunner]
    /\ starter = [i \in 1..Len(reqs) |-> [pc |-> "idle"]]
    /\ rows = table
    /\ poller = NoPoller
    /\ faults = 0
    /\ last_save = NoSave
    /\ EngineIdle
    /\ cli = NoCli

\* The same server over a store of which n calls will fail.
InitUnreliable(reqs, table, n) ==
    /\ progress = NewProgress
    /\ requests = reqs
    /\ runners = [r \in 1..Len(reqs) |-> NoRunner]
    /\ starter = [i \in 1..Len(reqs) |-> [pc |-> "idle"]]
    /\ rows = table
    /\ poller = NoPoller
    /\ faults = n
    /\ last_save = NoSave
    /\ EngineIdle
    /\ cli = NoCli

\* A row an earlier process left in the database file: the first Phase-1
\* candidate of symbol, replayed over the bars of that time.
EarlierRows(request) ==
    LET symbol == request.symbols[1]
        strategy == generate_phase1_grid[1]
        result == run_single_backtest(strategy, Klines(symbol, 0, request.days),
                                      symbol, request.sizing_mode)
    IN <<result_to_record(result,
                          compute_params_hash(strategy, symbol, request.days,
                                              request.sizing_mode),
                          0, "phase1", request.days)>>

\* One scan of one symbol, single-shot or continuous, over an empty table or
\* one that holds an earlier row, with cancel requests arriving at any moment.
Init ==
    \E continuous \in BOOLEAN :
      LET request == Request(<<Symbols[1]>>, continuous, 2)
      IN \E table \in {<< >>, EarlierRows(request)} :
           InitServer(<<request>>, table)

Next ==
    \/ \E i \in Tasks : StartCheck(i)
    \/ \E i \in Tasks : StartReset(i)
    \/ \E i \in Tasks : StartSpawn(i)
    \/ api_cancel_discovery
    \/ \E r \in Tasks : FetchCancelled(r)
    \/ \E r \in Tasks : FetchSymbol(r)
    \/ \E r \in Tasks : FetchFailedMessage(r)
    \/ \E r \in Tasks : FetchFailedStatus(r)
    \/ \E r \in Tasks : Phase1Start(r)
    \/ \E r \in Tasks : Phase1Cancelled(r)
    \/ \E r \in Tasks : Phase1Lookup(r)
    \/ \E r \in Tasks : Phase1Hit(r)
    \/ \E r \in Tasks : Phase1Skipped(r)
    \/ \E r \in Tasks : Phase1Miss(r)
    \/ \E r \in Tasks : Phase1Done(r)
    \/ \E r \in Tasks : Phase2Cancelled(r)
    \/ \E r \in Tasks : Phase2Top(r)
    \/ \E r \in Tasks : Phase2Lookup(r)
    \/ \E r \in Tasks : Phase2Hit(r)
    \/ \E r \in Tasks : Phase2Skipped(r)
    \/ \E r \in Tasks : Phase2Miss(r)
    \/ \E r \in Tasks : FinalizeCounters(r)
    \/ \E r \in Tasks : FinalizeResults(r)
    \/ \E r \in Tasks : FinalizeStatus(r)
    \/ \E r \in Tasks : CyclesStart(r)
    \/ \E r \in Tasks : CycleTopCancelled(r)
    \/ \E r \in Tasks : CycleTop(r)
    \/ \E r \in Tasks : RefreshStart(r)
    \/ \E r \in Tasks : RefreshSymbol(r)
    \/ \E r \in Tasks : RefreshDone(r)
    \/ \E r \in Tasks : CycleInfo(r)
    \/ \E r \in Tasks : MlCycleInfo(r)
    \/ \E r \in Tasks : CycleTotal(r)
    \/ \E r \in Tasks : CycleCompleted(r)
    \/ \E r \in Tasks : CycleSkipped(r)
    \/ \E r \in Tasks : WorkCancelled(r)
    \/ \E r \in Tasks : WorkCancelledBest(r)
    \/ \E r \in Tasks : WorkCancelledResults(r)
    \/ \E r \in Tasks : WorkLookup(r)
    \/ \E r \in Tasks : WorkHit(r)
    \/ \E r \in Tasks : WorkSkipped(r)
    \/ \E r \in Tasks : WorkMiss(r)
    \/ \E r \in Tasks : WorkDoneRefine(r)
    \/ \E r \in Tasks : WorkDone(r)
    \/ \E r \in Tasks : RefineLeave(r)
    \/ \E r \in Tasks : RefineTopResult(r)
    \/ \E r \in Tasks : RefineLookup(r)
    \/ \E r \in Tasks : RefineHit(r)
    \/ \E r \in Tasks : RefineMiss(r)
    \/ \E r \in Tasks : CycleEnd(r)
    \/ \E r \in Tasks : FinalBest(r)
    \/ \E r \in Tasks : FinalCopy(r)
    \/ \E r \in Tasks : FinalComplete(r)

Spec == Init /\ [][Next]_vars

\* The scans of Spec for the values of top_n a request may carry: the field is
\* an Option<usize> the handler passes on as it comes, 0 included.
InitRank ==
    \E continuous \in BOOLEAN, top_n \in 0..MaxTopN :
      LET request == Request(<<Symbols[1]>>, continuous, top_n)
      IN InitServer(<<request>>, EarlierRows(request))

SpecRank == InitRank /\ [][Next]_vars

\* The same single-shot request sent twice, with no cancel request.
InitTwice ==
    LET request == Request(<<Symbols[1]>>, FALSE, 2)
    IN InitServer(<<request, request>>, << >>)

\* The second request reaches the server while the first is being served: its
\* handler may pass the is_running() check before the first handler's reset().
\* Both tasks are followed through their Phase-1 scans.
NextRace ==
    \/ \E i \in Tasks : StartCheck(i)
    \/ \E i \in Tasks : StartReset(i)
    \/ \E i \in Tasks : StartSpawn(i)
    \/ \E r \in Tasks : FetchSymbol(r)
    \/ \E r \in Tasks : FetchFailedMessage(r)
    \/ \E r \in Tasks : FetchFailedStatus(r)
    \/ \E r \in Tasks : Phase1Start(r)
    \/ \E r \in Tasks : Phase1Lookup(r)
    \/ \E r \in Tasks : Phase1Hit(r)
    \/ \E r \in Tasks : Phase1Skipped(r)
    \/ \E r \in Tasks : Phase1Miss(r)

SpecRace == InitTwice /\ [][NextRace]_vars

\* Two single-shot requests for different symbols, the second reaching the
\* server while the first is being served, both followed to the end of their
\* Phase-1 scans, over an empty table or one that holds an earlier row.
InitApart ==
    LET first == Request(<<Symbols[1]>>, FALSE, 2)
        second == Request(<<Symbols[2]>>, FALSE, 2)
    IN \E table \in {<< >>, EarlierRows(first)} :
          InitServer(<<first, second>>, table)

NextApart ==
    \/ NextRace
    \/ \E r \in Tasks : Phase1Done(r)

SpecApart == InitApart /\ [][NextApart]_vars

\* One scan of two symbols, single-shot or continuous, with cancel requests
\* arriving at any moment.
InitPair ==
    \E continuous \in BOOLEAN :
      LET request == Request(<<Symbols[1], Symbols[2]>>, continuous, 2)
      IN \E table \in {<< >>, EarlierRows(request)} :
           InitServer(<<request>>, table)

SpecPair == InitPair /\ [][Next]_vars

\* The tasks spawned for the requests before request i have returned.
Quiet(i) == \A r \in 1..(i - 1) : starter[r].pc = "rejected" \/ runners[r].pc = "done"

\* The second request is sent after the scan of the first is over.
NextRerun ==
    \/ \E i \in Tasks : Quiet(i) /\ StartCheck(i)
    \/ \E i \in Tasks : Quiet(i) /\ StartReset(i)
    \/ \E i \in Tasks : Quiet(i) /\ StartSpawn(i)
    \/ \E r \in Tasks : FetchSymbol(r)
    \/ \E r \in Tasks : FetchFailedMessage(r)
    \/ \E r \in Tasks : FetchFailedStatus(r)
    \/ \E r \in Tasks : Phase1Start(r)
    \/ \E r \in Tasks : Phase1Lookup(r)
    \/ \E r \in Tasks : Phase1Hit(r)
    \/ \E r \in Tasks : Phase1Skipped(r)
    \/ \E r \in Tasks : Phase1Miss(r)
    \/ \E r \in Tasks : Phase1Done(r)
    \/ \E r \in Tasks : Phase2Top(r)
    \/ \E r \in Tasks : Phase2Lookup(r)
    \/ \E r \in Tasks : Phase2Hit(r)
    \/ \E r \in Tasks : Phase2Skipped(r)
    \/ \E r \in Tasks : Phase2Miss(r)
    \/ \E r \in Tasks : FinalizeCounters(r)
    \/ \E r \in Tasks : FinalizeResults(r)
    \/ \E r \in Tasks : FinalizeStatus(r)

SpecRerun == InitTwice /\ [][NextRerun]_vars

\* The records save is called with: the Phase-1 candidates of one symbol as
\* two runs over different bars would store them.
SaveInputs ==
    LET request == Request(<<Symbols[1]>>, FALSE, 2)
        symbol == request.symbols[1]
        grid == generate_phase1_grid
    IN {result_to_record(
            run_single_backtest(grid[k], Klines(symbol, run_id, request.days),
                                symbol, request.sizing_mode),
            compute_params_hash(grid[k], symbol, request.days, request.sizing_mode),
            run_id, "phase1", request.days)
        : k \in 1..Len(grid), run_id \in {1, 2}}

\* Ok(result.last_insert_rowid()): the id of the new row when the insert took
\* place.  An ignored insert leaves the connection's last_insert_rowid as it
\* was: the id of the row the pooled connection at hand inserted last, 0 when
\* it has inserted none.
last_insert_rowid(table, record) ==
    IF HasHash(table, record.params_hash) THEN 0..Len(table)
    ELSE {Len(table) + 1}

\* DiscoveryRepository::save called on its own, and the id it returns.
RepositorySave(record) ==
    /\ rows' = save(rows, record).rows
    /\ \E id \in last_insert_rowid(rows, record) :
          last_save' = [saved |-> TRUE, record |-> record, before |-> rows,
                        ok |-> save(rows, record).ok, id |-> id]
    /\ UNCHANGED <<progress, runners, starter, poller, requests, faults, engine, cli>>

InitSave == InitServer(<< >>, << >>)

NextSave == \E record \in SaveInputs : RepositorySave(record)

SpecSave == InitSave /\ [][NextSave]_vars

\* The row an earlier process left for Phase-1 candidate k of the request's
\* symbol s.
EarlierRow(request, s, k) ==
    LET symbol == request.symbols[s]
        strategy == generate_phase1_grid[k]
        result == run_single_backtest(strategy, Klines(symbol, 0, request.days),
                                      symbol, request.sizing_mode)
    IN result_to_record(result,
                        compute_params_hash(strategy, symbol, request.days,
                                            request.sizing_mode),
                        0, "phase1", request.days)

\* The tables a scan of two symbols may find: any selection of the rows of
\* three of its candidates.
ScanTables(request) ==
    LET keys == <<<<1, 1>>, <<1, 2>>, <<2, 1>>>>
    IN {LET Kept(i) == i \in chosen
            kept == SelectSeq(<<1, 2, 3>>, Kept)
        IN [j \in 1..Len(kept) |->
               EarlierRow(request, keys[kept[j]][1], keys[kept[j]][2])]
        : chosen \in SUBSET {1, 2, 3}}

\* One scan of two symbols, single-shot or continuous, over a store that may
\* fail and that holds some of the candidates; each fetch may fail.  The scan
\* is followed through Phase 1, or through the work loop of cycle 0.
InitScan ==
    \E continuous \in BOOLEAN :
      LET request == Request(<<Symbols[1], Symbols[2]>>, continuous, 2)
      IN \E table \in ScanTables(request) :
           InitUnreliable(<<request>>, table, MaxFaults)

NextScan ==
    \/ \E i \in Tasks : StartCheck(i)
    \/ \E i \in Tasks : StartReset(i)
    \/ \E i \in Tasks : StartSpawn(i)
    \/ \E r \in Tasks : FetchSymbol(r)
    \/ \E r \in Tasks : FetchFailedMessage(r)
    \/ \E r \in Tasks : FetchFailedStatus(r)
    \/ \E r \in Tasks : Phase1Start(r)
    \/ \E r \in Tasks : Phase1Lookup(r)
    \/ \E r \in Tasks : Phase1Hit(r)
    \/ \E r \in Tasks : Phase1Skipped(r)
    \/ \E r \in Tasks : Phase1Miss(r)
    \/ \E r \in Tasks : CyclesStart(r)
    \/ \E r \in Tasks : CycleTop(r)
    \/ \E r \in Tasks : CycleInfo(r)
    \/ \E r \in Tasks : CycleTotal(r)
    \/ \E r \in Tasks : CycleCompleted(r)
    \/ \E r \in Tasks : CycleSkipped(r)
    \/ \E r \in Tasks : WorkLookup(r)
    \/ \E r \in Tasks : WorkHit(r)
    \/ \E r \in Tasks : WorkSkipped(r)
    \/ \E r \in Tasks : WorkMiss(r)

SpecScan == InitScan /\ [][NextScan]_vars

\* One scan of one symbol over a table that holds an earlier row, polled by a
\* client the whole time and cancelled at any moment.
InitPoll ==
    \E continuous \in BOOLEAN :
      LET request == Request(<<Symbols[1]>>, continuous, 2)
      IN InitServer(<<request>>, EarlierRows(request))

\* An answer reaches the client before anything else moves (its delivery
\* touches nothing the program reads), and while a status call is reading, a
\* runner task gets at most PollWindow steps in.
Answering == poller.pc = "responded"

Handlers == IF Answering THEN {} ELSE Tasks

Movers ==
    IF Answering THEN {}
    ELSE {r \in Tasks : poller.pc = "idle" \/ StepsOf(r) - poller.began[r] < PollWindow}

NextPoll ==
    \/ \E i \in Handlers : StartCheck(i)
    \/ \E i \in Handlers : StartReset(i)
    \/ \E i \in Handlers : StartSpawn(i)
    \/ ~Answering /\ api_cancel_discovery
    \/ PollStatus
    \/ PollTotal
    \/ PollCompleted
    \/ PollSkipped
    \/ PollBest
    \/ PollFinal
    \/ PollError
    \/ PollAnswered
    \/ \E r \in Movers : FetchCancelled(r)
    \/ \E r \in Movers : FetchSymbol(r)
    \/ \E r \in Movers : FetchFailedMessage(r)
    \/ \E r \in Movers : FetchFailedStatus(r)
    \/ \E r \in Movers : Phase1Start(r)
    \/ \E r \in Movers : Phase1Cancelled(r)
    \/ \E r \in Movers : Phase1Lookup(r)
    \/ \E r \in Movers : Phase1Hit(r)
    \/ \E r \in Movers : Phase1Skipped(r)
    \/ \E r \in Movers : Phase1Miss(r)
    \/ \E r \in Movers : Phase1Done(r)
    \/ \E r \in Movers : Phase2Cancelled(r)
    \/ \E r \in Movers : Phase2Top(r)
    \/ \E r \in Movers : Phase2Lookup(r)
    \/ \E r \in Movers : Phase2Hit(r)
    \/ \E r \in Movers : Phase2Skipped(r)
    \/ \E r \in Movers : Phase2Miss(r)
    \/ \E r \in Movers : FinalizeCounters(r)
    \/ \E r \in Movers : FinalizeResults(r)
    \/ \E r \in Movers : FinalizeStatus(r)
    \/ \E r \in Movers : CyclesStart(r)
    \/ \E r \in Movers : CycleTopCancelled(r)
    \/ \E r \in Movers : CycleTop(r)
    \/ \E r \in Movers : RefreshStart(r)
    \/ \E r \in Movers : RefreshSymbol(r)
    \/ \E r \in Movers : RefreshDone(r)
    \/ \E r \in Movers : CycleInfo(r)
    \/ \E r \in Movers : MlCycleInfo(r)
    \/ \E r \in Movers : CycleTotal(r)
    \/ \E r \in Movers : CycleCompleted(r)
    \/ \E r \in Movers : CycleSkipped(r)
    \/ \E r \in Movers : WorkCancelled(r)
    \/ \E r \in Movers : WorkCancelledBest(r)
    \/ \E r \in Movers : WorkCancelledResults(r)
    \/ \E r \in Movers : WorkLookup(r)
    \/ \E r \in Movers : WorkHit(r)
    \/ \E r \in Movers : WorkSkipped(r)
    \/ \E r \in Movers : WorkMiss(r)
    \/ \E r \in Movers : WorkDoneRefine(r)
    \/ \E r \in Movers : WorkDone(r)
    \/ \E r \in Movers : RefineLeave(r)
    \/ \E r \in Movers : RefineTopResult(r)
    \/ \E r \in Movers : RefineLookup(r)
    \/ \E r \in Movers : RefineHit(r)
    \/ \E r \in Movers : RefineMiss(r)
    \/ \E r \in Movers : CycleEnd(r)
    \/ \E r \in Movers : FinalBest(r)
    \/ \E r \in Movers : FinalCopy(r)
    \/ \E r \in Movers : FinalComplete(r)

SpecPoll == InitPoll /\ [][NextPoll]_vars

\* Two requests of one symbol whose fetch may fail, the second sent after the
\* task of the first has returned, polled by a client the whole time.  The
\* tasks are followed to the end of their fetch.
NextPollError ==
    \/ \E i \in Tasks : Quiet(i) /\ StartCheck(i)
    \/ \E i \in Tasks : Quiet(i) /\ StartReset(i)
    \/ \E i \in Tasks : Quiet(i) /\ StartSpawn(i)
    \/ PollStatus
    \/ PollTotal
    \/ PollCompleted
    \/ PollSkipped
    \/ PollBest
    \/ PollFinal
    \/ PollError
    \/ PollAnswered
    \/ \E r \in Tasks : FetchSymbol(r)
    \/ \E r \in Tasks : FetchFailedMessage(r)
    \/ \E r \in Tasks : FetchFailedStatus(r)

SpecPollError == InitTwice /\ [][NextPollError]_vars

\* ------------------------------------------------------- score_result alone
\* The server with no request to come, while an engine function is followed.
ServerIdle ==
    /\ progress = NewProgress
    /\ requests = << >>
    /\ runners = << >>
    /\ starter = << >>
    /\ rows = << >>
    /\ poller = NoPoller
    /\ faults = 0
    /\ last_save = NoSave
    /\ cli = NoCli

\* The results handed to score_result: every total_trades up to MaxTrades,
\* with metrics on both sides of each threshold of the rule.
ScoreInputs ==
    [total_trades : 0..MaxTrades,
     net_pnl : {-50000, 250000},
     win_rate : {4000, 6000, 8000},
     sharpe_ratio : {200},
     max_drawdown_pct : {500},
     profit_factor : {50, 300},
     strategy_confidence : {0, 5000},
     sortino_ratio : {0, 900},
     max_consecutive_losses : {0, 8, 11}]

InitScore ==
    /\ ServerIdle
    /\ fees = NotCalled
    /\ scoring \in {[pc |-> "call", result |-> result, score |-> 0] :
                       result \in ScoreInputs}
    /\ evaluation = NotCalled
    /\ generation = NotCalled
    /\ composite = NotCalled
    /\ arbitrage = NotCalled

\* let score = score_result(&result, initial_capital)
ScoreResult ==
    /\ scoring.pc = "call"
    /\ scoring' = [scoring EXCEPT !.pc = "returned",
                      !.score = score_result(scoring.result, InitialCapital)]
    /\ UNCHANGED <<server, evaluation, generation, composite, arbitrage, fees, cli>>

NextScore == ScoreResult

SpecScore == InitScore /\ [][NextScore]_vars

\* ------------------------------------------------- run_generic_backtest alone
\* Units: money in hundredths, prices in whole units, shares in thousandths,
\* position percentages in tenths of a percent, probabilities and ratios in
\* ten-thousandths.  A Decimal quotient or product is cut to the unit.

Signals == {"Buy", "Sell", "Hold"}

\* SignalWithConfidence: confidence in hundredths, 0 for Hold and 0.3 to 1.0
\* for the others.
SignalWithConfidence(signal, confidence) ==
    [signal |-> signal, confidence |-> confidence]

\* Rounding of num/den to the nearest unit, as format!("{:.4}") does.
Rounded(num, den) == (2 * num + den) \div (2 * den)

\* estimate_poly_probability, in ten-thousandths.
estimate_poly_probability(entry_price, current_price) ==
    IF entry_price <= 0 THEN 5000
    ELSE Max(500, Min(9500,
             5000 + Rounded((current_price - entry_price) * 50000, entry_price)))

\* calculate_taker_fee with PolymarketFeeConfig::default(): fee_rate 0.25,
\* exponent 2, rounded down.
calculate_taker_fee(shares, price) ==
    IF shares <= 0 \/ price <= 0 \/ price >= 10000 THEN 0
    ELSE LET base == (price * (10000 - price)) \div 10000
             factor == (base * base) \div 10000
         IN (shares * factor * 25) \div 10000000

\* The Kelly percentage without the cap.
KellyUncapped(e) ==
    LET p == (e.recent_wins * 10000) \div e.recent_total
        b == (e.recent_avg_win * 10000) \div e.recent_avg_loss
        q == 10000 - p
    IN IF b > 0 THEN Max((((((p * b) \div 10000) - q) * 10000) \div b) \div 10, 0)
       ELSE 0

\* The Kelly percentage of the sliding window, capped at 25 %.
KellyPct(e) ==
    LET p == (e.recent_wins * 10000) \div e.recent_total
        b == (e.recent_avg_win * 10000) \div e.recent_avg_loss
        q == 10000 - p
        kelly == IF b > 0 THEN (((((p * b) \div 10000) - q) * 10000) \div b) \div 10
                 ELSE 0
    IN Min(Max(kelly, 0), KellyCap)

\* size_pct of an entry on signal sig.
SizePct(e, sig) ==
    CASE e.sizing_mode = "Fixed" -> e.base_position_pct
      [] e.sizing_mode = "Kelly" ->
            IF e.recent_total >= KellyMinTrades /\ e.recent_avg_loss > 0
            THEN KellyPct(e) ELSE e.base_position_pct
      [] OTHER -> (e.base_position_pct * sig.confidence) \div 100

\* The Buy arm without its test of the open position: every Buy enters.
OnBuyAlways(e, kline, sig) ==
    LET size_pct == SizePct(e, sig)
        position_value == (e.equity * size_pct) \div 1000
        shares == (position_value * 10) \div kline.close
        p_entry == estimate_poly_probability(e.baseline_price, kline.close)
        entry_fee == calculate_taker_fee(shares, p_entry)
    IN [e EXCEPT !.skipped = FALSE,
                 !.size_pct = size_pct,
                 !.equity = e.equity - entry_fee,
                 !.position = <<[entry_price |-> kline.close, size |-> shares]>>,
                 !.opened = e.opened + 1,
                 !.fees_paid = e.fees_paid + entry_fee]

\* The Buy arm with a skip that starts the Kelly window afresh.
OnBuyResetsWindow(e, kline, sig) ==
    IF e.position # << >> THEN [e EXCEPT !.skipped = FALSE]
    ELSE
      LET size_pct == SizePct(e, sig)
          position_value == (e.equity * size_pct) \div 1000
          shares == (position_value * 10) \div kline.close
          p_entry == estimate_poly_probability(e.baseline_price, kline.close)
          entry_fee == calculate_taker_fee(shares, p_entry)
      IN IF size_pct <= 0
         THEN [e EXCEPT !.skipped = TRUE, !.size_pct = size_pct, !.skips = @ + 1,
                        !.recent_total = 0, !.recent_wins = 0]
         ELSE [e EXCEPT !.skipped = FALSE,
                        !.size_pct = size_pct,
                        !.equity = e.equity - entry_fee,
                        !.position = <<[entry_price |-> kline.close, size |-> shares]>>,
                        !.opened = e.opened + 1,
                        !.fees_paid = e.fees_paid + entry_fee]

\* The Buy arm on bar kline: an entry when no position is open and the size
\* is positive.  skipped tells that the arm left the loop body (continue);
\* skips counts the Buys skipped so far.
OnBuy(e, kline, sig) ==
    IF e.position # << >> THEN [e EXCEPT !.skipped = FALSE]
    ELSE
      LET size_pct == SizePct(e, sig)
          position_value == (e.equity * size_pct) \div 1000
          shares == (position_value * 10) \div kline.close
          p_entry == estimate_poly_probability(e.baseline_price, kline.close)
          entry_fee == calculate_taker_fee(shares, p_entry)
      IN IF size_pct <= 0
         THEN [e EXCEPT !.skipped = TRUE, !.size_pct = size_pct, !.skips = @ + 1]
         ELSE [e EXCEPT !.skipped = FALSE,
                        !.size_pct = size_pct,
                        !.equity = e.equity - entry_fee,
                        !.position = <<[entry_price |-> kline.close, size |-> shares]>>,
                        !.opened = e.opened + 1,
                        !.fees_paid = e.fees_paid + entry_fee]

\* A trade that keeps the entry price as its exit price.
TradeWithoutExitPrice(pos, kline) ==
    [entry_time |-> 0, exit_time |-> kline.open_time, side |-> "Buy",
     entry_price |-> pos.entry_price, exit_price |-> pos.entry_price, size |-> pos.size,
     pnl |-> ((kline.close - pos.entry_price) * pos.size) \div 10,
     pnl_pct |-> 0]

\* The trade that closes position pos at the close of bar kline.
BacktestTrade(pos, kline) ==
    [entry_time |-> 0, exit_time |-> kline.open_time, side |-> "Buy",
     entry_price |-> pos.entry_price, exit_price |-> kline.close, size |-> pos.size,
     pnl |-> ((kline.close - pos.entry_price) * pos.size) \div 10,
     pnl_pct |-> IF pos.entry_price > 0
                 THEN ((kline.close - pos.entry_price) * 10000) \div pos.entry_price
                 ELSE 0]

Abs(x) == IF x < 0 THEN -x ELSE x

\* The Sell arm on bar kline: an exit when a position is open.
OnSell(e, kline) ==
    IF e.position = << >> THEN [e EXCEPT !.skipped = FALSE]
    ELSE
      LET pos == e.position[1]
          trade == BacktestTrade(pos, kline)
          pnl == trade.pnl
          p_exit == estimate_poly_probability(e.baseline_price, kline.close)
          exit_fee == calculate_taker_fee(pos.size, p_exit)
          total == e.recent_total + 1
          wins == IF pnl > 0 THEN e.recent_wins + 1 ELSE e.recent_wins
          losses == total - wins
      IN [e EXCEPT !.skipped = FALSE,
                   !.position = << >>,
                   !.equity = e.equity + pnl - exit_fee,
                   !.trades = Append(e.trades, trade),
                   !.fees_paid = e.fees_paid + exit_fee,
                   !.recent_total = total,
                   !.recent_wins = wins,
                   !.recent_avg_win =
                       IF pnl > 0
                       THEN (e.recent_avg_win * (wins - 1) + pnl) \div wins
                       ELSE e.recent_avg_win,
                   !.recent_avg_loss =
                       IF pnl > 0 THEN e.recent_avg_loss
                       ELSE IF losses > 0
                            THEN (e.recent_avg_loss * (losses - 1) + Abs(pnl)) \div losses
                            ELSE Abs(pnl)]

\* Track drawdown, at the end of the loop body.
TrackDrawdown(e, kline) ==
    LET unrealized == IF e.position = << >> THEN 0
                      ELSE ((kline.close - e.position[1].entry_price)
                            * e.position[1].size) \div 10
        current_equity == e.equity + unrealized
        peak == Max(e.peak_equity, current_equity)
        dd_pct == IF peak > 0 THEN ((peak - current_equity) * 10000) \div peak ELSE 0
    IN [e EXCEPT !.peak_equity = peak,
                 !.max_drawdown_pct = Max(e.max_drawdown_pct, dd_pct)]

\* One pass of the loop over the bars.
OnBar(e) ==
    LET kline == e.klines[e.bar]
        sig == e.generator[e.bar]
        matched == CASE sig.signal = "Buy" -> OnBuy(e, kline, sig)
                     [] sig.signal = "Sell" -> OnSell(e, kline)
                     [] OTHER -> [e EXCEPT !.skipped = FALSE]
        tracked == IF matched.skipped THEN matched ELSE TrackDrawdown(matched, kline)
    IN [tracked EXCEPT !.bar = e.bar + 1]

\* The end of the loop without the force-close.
LeaveOpen(e) == e

\* Close any remaining position at last bar price.
CloseRemaining(e) ==
    IF e.position = << >> \/ e.klines = << >> THEN [e EXCEPT !.position = << >>]
    ELSE
      LET pos == e.position[1]
          last == e.klines[Len(e.klines)]
          trade == BacktestTrade(pos, last)
          p_exit == estimate_poly_probability(e.baseline_price, last.close)
          exit_fee == calculate_taker_fee(pos.size, p_exit)
      IN [e EXCEPT !.position = << >>,
                   !.equity = e.equity + trade.pnl - exit_fee,
                   !.trades = Append(e.trades, trade),
                   !.fees_paid = e.fees_paid + exit_fee]

\* Calculate total fees from entry+exit on each trade.
RECURSIVE TotalFees(_, _)
TotalFees(trades, baseline_price) ==
    IF trades = << >> THEN 0
    ELSE LET trade == trades[Len(trades)]
             p_entry == estimate_poly_probability(baseline_price, trade.entry_price)
             p_exit == estimate_poly_probability(baseline_price, trade.exit_price)
         IN TotalFees(SubSeq(trades, 1, Len(trades) - 1), baseline_price)
            + calculate_taker_fee(trade.size, p_entry)
            + calculate_taker_fee(trade.size, p_exit)

\* f64::sqrt, rounded down to a whole number.
RECURSIVE SqrtBetween(_, _, _)
SqrtBetween(x, lo, hi) ==
    IF lo >= hi THEN lo
    ELSE LET mid == (lo + hi + 1) \div 2
         IN IF mid * mid <= x THEN SqrtBetween(x, mid, hi)
            ELSE SqrtBetween(x, lo, mid - 1)

Sqrt(x) == SqrtBetween(x, 0, 46340)

\* A quotient rounded toward zero.
Quot(num, den) == IF num < 0 THEN -((-num) \div den) ELSE num \div den

\* The sum of the values at the indices in `among`.
RECURSIVE SumOver(_, _)
SumOver(values, among) ==
    IF among = {} THEN 0
    ELSE LET i == CHOOSE j \in among : TRUE
         IN values[i] + SumOver(values, among \ {i})

Pnls(trades) == [i \in 1..Len(trades) |-> trades[i].pnl]
Losses(trades) == [i \in 1..Len(trades) |-> Abs(trades[i].pnl)]
Returns(trades) == [i \in 1..Len(trades) |-> trades[i].pnl_pct]
SquaredReturns(trades) == [i \in 1..Len(trades) |-> trades[i].pnl_pct * trades[i].pnl_pct]

\* calculate_sharpe, in hundredths: mean / std_dev of the trades' pnl_pct
\* with the sample variance, 0 below two trades or without dispersion.  With
\* S the sum and Q the sum of squares of the n returns, the variance is
\* (n*Q - S*S) / (n*(n-1)) and the ratio S * sqrt(n-1) / sqrt(n*Q - S*S),
\* taken to the precision of the whole-number square roots.
calculate_sharpe(trades) ==
    LET n == Len(trades)
        S == SumOver(Returns(trades), 1..n)
        Q == SumOver(SquaredReturns(trades), 1..n)
        D == n * Q - S * S
        scale == IF n * D < 20000000 THEN 10 ELSE 1
    IN IF n < 2 \/ D <= 0 THEN 0
       ELSE Quot(S * Sqrt((n - 1) * 10000 * scale * scale),
                 Sqrt(n * D * scale * scale))

\* calculate_sortino, in hundredths: mean / downside deviation, the root
\* mean square of the negative returns; ten times the mean when no return
\* is negative and the mean is positive.
calculate_sortino(trades) ==
    LET n == Len(trades)
        S == SumOver(Returns(trades), 1..n)
        negative == {i \in 1..n : trades[i].pnl_pct < 0}
        Q == SumOver(SquaredReturns(trades), negative)
    IN IF n < 2 THEN 0
       ELSE IF negative = {} THEN (IF S > 0 THEN Quot(10 * S, n) ELSE 0)
       ELSE IF Q = 0 THEN 0
       ELSE Quot(S * Sqrt(Cardinality(negative) * 1000000), n * Sqrt(100 * Q))

\* The longest run of consecutive trades with pnl < 0.
RECURSIVE MaxStreak(_, _, _)
MaxStreak(trades, current_streak, max_streak) ==
    IF trades = << >> THEN max_streak
    ELSE IF trades[1].pnl < 0
         THEN MaxStreak(Tail(trades), current_streak + 1,
                        Max(max_streak, current_streak + 1))
         ELSE MaxStreak(Tail(trades), 0, max_streak)

\* let losing_trades = total_trades - winning_trades
LosingTrades(trades, winning_trades) == Len(trades) - winning_trades

\* GenericBacktestResult: money and ratios in hundredths, and gross_pnl as
\* run_indicator_backtest_for_discovery reports it.
GenericBacktestResult(e) ==
    LET total_trades == Len(e.trades)
        winners == {i \in 1..total_trades : e.trades[i].pnl > 0}
        losers == {i \in 1..total_trades : e.trades[i].pnl < 0}
        winning_trades == Cardinality(winners)
        losing_trades == LosingTrades(e.trades, winning_trades)
        total_pnl == e.equity - e.initial_capital
        total_fees == TotalFees(e.trades, e.baseline_price)
        gross_profits == SumOver(Pnls(e.trades), winners)
        gross_losses == SumOver(Losses(e.trades), losers)
    IN [total_pnl |-> total_pnl,
        total_fees |-> total_fees,
        total_trades |-> total_trades,
        winning_trades |-> winning_trades,
        losing_trades |-> losing_trades,
        win_rate |-> IF total_trades > 0
                     THEN (winning_trades * 10000) \div total_trades ELSE 0,
        sharpe_ratio |-> calculate_sharpe(e.trades),
        max_drawdown_pct |-> e.max_drawdown_pct,
        profit_factor |-> IF gross_losses > 0
                          THEN (gross_profits * 100) \div gross_losses
                          ELSE IF gross_profits > 0 THEN 99999 ELSE 0,
        sortino_ratio |-> calculate_sortino(e.trades),
        max_consecutive_losses |-> MaxStreak(e.trades, 0, 0),
        avg_win_pnl |-> IF winning_trades > 0
                        THEN gross_profits \div winning_trades ELSE 0,
        avg_loss_pnl |-> IF losing_trades > 0
                         THEN gross_losses \div losing_trades ELSE 0,
        gross_pnl |-> total_pnl + total_fees]

\* The DiscoveryResult run_indicator_backtest_for_discovery makes of bt: the
\* confidence is calculated for promising strategies only.
DiscoveryResultOf(bt, confidence) ==
    [net_pnl |-> bt.total_pnl,
     win_rate |-> bt.win_rate,
     total_trades |-> bt.total_trades,
     sharpe_ratio |-> bt.sharpe_ratio,
     max_drawdown_pct |-> bt.max_drawdown_pct,
     profit_factor |-> bt.profit_factor,
     sortino_ratio |-> bt.sortino_ratio,
     max_consecutive_losses |-> bt.max_consecutive_losses,
     strategy_confidence |-> IF bt.total_pnl > 0 /\ bt.win_rate > 5000
                             THEN confidence ELSE 0]

\* The locals of run_generic_backtest before the first bar.  opened and
\* fees_paid count the entries made and the fees taken from equity.
NewEvaluation(klines, generator, sizing_mode) ==
    [pc |-> "bars", klines |-> klines, generator |-> generator,
     sizing_mode |-> sizing_mode, initial_capital |-> InitialCapital * 100,
     base_position_pct |-> BasePositionPct,
     baseline_price |-> IF klines = << >> THEN 1 ELSE klines[1].close,
     bar |-> 1, equity |-> InitialCapital * 100, peak_equity |-> InitialCapital * 100,
     max_drawdown_pct |-> 0, position |-> << >>, trades |-> << >>,
     recent_wins |-> 0, recent_total |-> 0, recent_avg_win |-> 0,
     recent_avg_loss |-> 0, skipped |-> FALSE, size_pct |-> 0,
     opened |-> 0, fees_paid |-> 0, skips |-> 0, result |-> << >>]

\* for kline in klines { ... }
ReplayBar ==
    /\ evaluation.pc = "bars"
    /\ evaluation.bar <= Len(evaluation.klines)
    /\ evaluation' = OnBar(evaluation)
    /\ UNCHANGED <<server, scoring, generation, composite, arbitrage, fees, cli>>

\* The end of the loop: the force-close.
ReplayClose ==
    /\ evaluation.pc = "bars"
    /\ evaluation.bar > Len(evaluation.klines)
    /\ evaluation' = [CloseRemaining(evaluation) EXCEPT !.pc = "metrics"]
    /\ UNCHANGED <<server, scoring, generation, composite, arbitrage, fees, cli>>

\* Calculate metrics, and return.
ReplayMetrics ==
    /\ evaluation.pc = "metrics"
    /\ evaluation' = [evaluation EXCEPT !.pc = "returned",
                         !.result = <<GenericBacktestResult(evaluation)>>]
    /\ UNCHANGED <<server, scoring, generation, composite, arbitrage, fees, cli>>

\* Bars by their closes, one open_time apart.
Bars(closes) == [i \in 1..Len(closes) |-> [open_time |-> i, close |-> closes[i]]]

RECURSIVE SeqsUpTo(_, _)
SeqsUpTo(S, n) ==
    IF n = 0 THEN {<< >>}
    ELSE LET shorter == SeqsUpTo(S, n - 1)
         IN shorter \cup {Append(s, x) : s \in {t \in shorter : Len(t) = n - 1}, x \in S}

\* Every series of up to MaxBars bars at two price levels, under every
\* series of signals a generator can give on it.
ShortReplays ==
    {<<Bars(closes), generator>> :
        closes \in SeqsUpTo({100, 102}, MaxBars),
        generator \in SeqsUpTo({SignalWithConfidence("Hold", 0),
                                SignalWithConfidence("Buy", 100),
                                SignalWithConfidence("Sell", 100)}, MaxBars)}

\* RoundTrips entries and exits on alternate bars and one more entry: the
\* first `losses` of them bought at 102 and sold at 100, the others bought at
\* 100 and sold at win_exit.
LongCloses(losses, win_exit) ==
    [i \in 1..(2 * RoundTrips + 1) |->
        IF i % 2 = 1 THEN (IF (i + 1) \div 2 <= losses THEN 102 ELSE 100)
        ELSE (IF i \div 2 <= losses THEN 100 ELSE win_exit)]

Alternating(n, confidence) ==
    [i \in 1..n |-> SignalWithConfidence(IF i % 2 = 1 THEN "Buy" ELSE "Sell", confidence)]

LongReplays ==
    {<<Bars(LongCloses(losses, win_exit)), Alternating(2 * RoundTrips + 1, c)>> :
        losses \in 0..MaxLosses, win_exit \in {102, 106}, c \in {30, 100}}

\* Round trips that lose about five percent each, bought and sold on
\* alternate bars.
SteadyCloses == <<100, 95, 100, 95, 100, 95, 100, 95, 99, 94>>

SteadyReplays ==
    {<<Bars(SubSeq(SteadyCloses, 1, 2 * k)), Alternating(2 * k, c)>> :
        k \in 4..5, c \in {30, 100}}

InitReplay ==
    /\ ServerIdle
    /\ fees = NotCalled
    /\ \E replay \in {r \in ShortReplays : Len(r[1]) = Len(r[2])}
                       \cup LongReplays \cup SteadyReplays :
       \E sizing_mode \in {"Fixed", "Kelly", "ConfidenceWeighted"} :
          evaluation = NewEvaluation(replay[1], replay[2], sizing_mode)
    /\ scoring = NotCalled
    /\ generation = NotCalled
    /\ composite = NotCalled
    /\ arbitrage = NotCalled

NextReplay ==
    \/ ReplayBar
    \/ ReplayClose
    \/ ReplayMetrics

SpecReplay == InitReplay /\ [][NextReplay]_vars

\* ------------------------------------------- ComboSignalGenerator::on_bar alone
CombineMode == {"Unanimous", "Majority", "PrimaryConfirmed"}

\* usize::div_ceil
div_ceil(a, b) == (a + b - 1) \div b

\* How many of the signals are Buy, or Sell.
Count(signals, signal) ==
    Cardinality({i \in 1..Len(signals) : signals[i].signal = signal})

RECURSIVE SumConfidence(_, _)
SumConfidence(signals, among) ==
    IF signals = << >> THEN 0
    ELSE (IF signals[1].signal \in among THEN signals[1].confidence ELSE 0)
         + SumConfidence(Tail(signals), among)

\* SignalWithConfidence::hold(), buy() and sell(): the last two clamp the
\* confidence into 0.3 to 1.0.
hold == SignalWithConfidence("Hold", 0)
buy(confidence) == SignalWithConfidence("Buy", Max(30, Min(100, confidence)))
sell(confidence) == SignalWithConfidence("Sell", Max(30, Min(100, confidence)))

\* The match on self.mode over the sub-generators' signals of one bar.
Combine(mode, signals) ==
    LET buy_count == Count(signals, "Buy")
        sell_count == Count(signals, "Sell")
        total == Len(signals)
    IN CASE mode = "Unanimous" ->
              IF buy_count = total
              THEN buy(SumConfidence(signals, Signals) \div total)
              ELSE IF sell_count = total
              THEN sell(SumConfidence(signals, Signals) \div total)
              ELSE hold
         [] mode = "Majority" ->
              LET threshold == div_ceil(Len(signals), 2)
              IN IF buy_count >= threshold
                 THEN buy(SumConfidence(signals, {"Buy"}) \div buy_count)
                 ELSE IF sell_count >= threshold
                 THEN sell(SumConfidence(signals, {"Sell"}) \div sell_count)
                 ELSE hold
         [] OTHER ->
              IF signals = << >> THEN hold
              ELSE LET primary == signals[1]
                       confirmed == \E i \in 2..Len(signals) :
                                       \/ signals[i].signal = primary.signal
                                       \/ signals[i].signal = "Hold"
                   IN IF primary.signal = "Hold" THEN hold
                      ELSE IF confirmed THEN primary
                      ELSE hold

\* What the sub-generators can answer on one bar.
SubSignals ==
    {s \in SeqsUpTo({hold, buy(30), buy(100), sell(30), sell(100)}, MaxSubs) :
        Len(s) >= 2}

InitCombo ==
    /\ ServerIdle
    /\ fees = NotCalled
    /\ composite \in {[pc |-> "call", mode |-> mode, signals |-> signals, out |-> hold] :
                         mode \in CombineMode, signals \in SubSignals}
    /\ evaluation = NotCalled
    /\ scoring = NotCalled
    /\ generation = NotCalled
    /\ arbitrage = NotCalled

\* ComboSignalGenerator::on_bar, once the sub-generators have answered.
ComboOnBar ==
    /\ composite.pc = "call"
    /\ composite' = [composite EXCEPT !.pc = "returned",
                        !.out = Combine(composite.mode, composite.signals)]
    /\ UNCHANGED <<server, evaluation, scoring, generation, arbitrage, fees, cli>>

NextCombo == ComboOnBar

SpecCombo == InitCombo /\ [][NextCombo]_vars

\* --------------------------------------------- GabagoolBacktestEngine::run alone
\* Units: prices of the synthetic market, spreads and offsets in
\* ten-thousandths; spread_multiplier in tenths; size_per_side in whole
\* units, so locked_profit is in ten-thousandths.

Clamp(x, lo, hi) == Min(Max(x, lo), hi)

\* A maker fill on the ask side: above mid by half the spread and the offset.
FillAboveMid(mid, spread, bid_offset) ==
    Clamp(mid + spread \div 2 + bid_offset, 500, 9500)

\* Maker fill prices (bid below mid).
MakerFill(mid, spread, bid_offset) ==
    Clamp(mid - spread \div 2 - bid_offset, 500, 9500)

\* One pass of the loop of run: the window of bar kline under config.
GabagoolWindowResult(config, kline) ==
    LET price_move_pct == IF kline.open > 0
                          THEN ((kline.close - kline.open) * 10000) \div kline.open
                          ELSE 0
        volatility == IF kline.open > 0
                      THEN ((kline.high - kline.low) * 10000) \div kline.open
                      ELSE 0
        deviation == Clamp(price_move_pct * 5, -4000, 4000)
        yes_mid == 5000 + deviation
        no_mid == 10000 - yes_mid
        spread == Clamp((volatility * config.spread_multiplier) \div 10, 200, 1000)
        yes_fill == MakerFill(yes_mid, spread, config.bid_offset)
        no_fill == MakerFill(no_mid, spread, config.bid_offset)
        pair_cost == yes_fill + no_fill
        traded == pair_cost < config.max_pair_cost
    IN [time |-> kline.open_time, yes_fill |-> yes_fill, no_fill |-> no_fill,
        pair_cost |-> pair_cost,
        locked_profit |-> IF traded THEN config.size_per_side * (10000 - pair_cost)
                          ELSE 0,
        traded |-> traded, btc_open |-> kline.open, btc_close |-> kline.close,
        spread |-> spread]

\* GabagoolBacktestConfig as run_gabagool_backtest_for_discovery builds it
\* from a Gabagool descriptor: size_per_side is 10.
GabagoolBacktestConfig(max_pair_cost, bid_offset, spread_multiplier) ==
    [size_per_side |-> 10, max_pair_cost |-> max_pair_cost,
     bid_offset |-> bid_offset, spread_multiplier |-> spread_multiplier]

\* The descriptors' ranges: the grids, the random tuples, and mutation, which
\* bounds max_pair_cost on both sides and the other two from below only.
GabagoolConfigs ==
    {GabagoolBacktestConfig(mpc, bo, sm) :
        mpc \in {8500, 9400, 9900}, bo \in {10, 100, 500, 3000}, sm \in {10, 30, 80, 200}}

\* A bar that opens at 1000, closes at close and reaches range beyond both.
Candle(close, range) ==
    [open |-> 1000, close |-> close,
     high |-> Max(1000, close) + range, low |-> Min(1000, close) - range]

Candles == {Candle(close, range) : close \in {900, 1000, 1010, 1100}, range \in {0, 10, 50}}

\* The series of up to MaxWindows of the candles, one open_time apart.
Series ==
    {[i \in 1..Len(s) |-> [open_time |-> i, open |-> s[i].open, close |-> s[i].close,
                           high |-> s[i].high, low |-> s[i].low]] :
        s \in SeqsUpTo(Candles, MaxWindows)}

InitGabagool ==
    /\ ServerIdle
    /\ fees = NotCalled
    /\ arbitrage \in {[pc |-> "bars", config |-> config, klines |-> klines,
                       windows |-> << >>, profit_curve |-> << >>,
                       cumulative_profit |-> 0] :
                         config \in GabagoolConfigs, klines \in Series}
    /\ evaluation = NotCalled
    /\ scoring = NotCalled
    /\ generation = NotCalled
    /\ composite = NotCalled

\* A curve value that is the profit of the window alone.
ProfitOfWindow(cumulative_profit, window) == window.locked_profit

\* cumulative_profit += profit, on a traded window only.
CumulativeProfit(cumulative_profit, window) ==
    IF window.traded THEN cumulative_profit + window.locked_profit
    ELSE cumulative_profit

\* for kline in klines { ... windows.push(...); profit_curve.push(...) }
GabagoolBar ==
    /\ arbitrage.pc = "bars"
    /\ Len(arbitrage.windows) < Len(arbitrage.klines)
    /\ LET kline == arbitrage.klines[Len(arbitrage.windows) + 1]
           window == GabagoolWindowResult(arbitrage.config, kline)
           cumulative == CumulativeProfit(arbitrage.cumulative_profit, window)
       IN arbitrage' = [arbitrage EXCEPT
               !.windows = Append(@, window),
               !.cumulative_profit = cumulative,
               !.profit_curve = Append(@, [time |-> kline.open_time,
                                           equity |-> cumulative])]
    /\ UNCHANGED <<server, evaluation, scoring, generation, composite, fees, cli>>

\* The aggregates after the loop, and the return.
GabagoolReturn ==
    /\ arbitrage.pc = "bars"
    /\ Len(arbitrage.windows) = Len(arbitrage.klines)
    /\ arbitrage' = [pc |-> "returned", config |-> arbitrage.config,
                     klines |-> arbitrage.klines, windows |-> arbitrage.windows,
                     profit_curve |-> arbitrage.profit_curve,
                     cumulative_profit |-> arbitrage.cumulative_profit,
                     total_windows |-> Len(arbitrage.klines),
                     traded_windows |->
                        Len(SelectSeq(arbitrage.windows, LAMBDA w : w.traded)),
                     total_locked_profit |-> arbitrage.cumulative_profit]
    /\ UNCHANGED <<server, evaluation, scoring, generation, composite, fees, cli>>

NextGabagool ==
    \/ GabagoolBar
    \/ GabagoolReturn

SpecGabagool == InitGabagool /\ [][NextGabagool]_vars

\* -------------------------------------------- parameter-space generators alone
\* rand::thread_rng(): the generator of the calling thread, seeded from the
\* operating system.  Its state is no argument of the grid generators; a value
\* drawn is a function of the seed and of the number of values drawn before.
thread_rng(seed) == [seed |-> seed, draws |-> 0]

Raw(rng) ==
    ((rng.draws + 17 * rng.seed) * (rng.draws + 3) * 31 + 7 * rng.seed) % 1013

Drawn(rng, n) == [rng EXCEPT !.draws = @ + n]

\* rng.gen_range(lo..hi), hi excluded.
gen_range(rng, lo, hi) == lo + (Raw(rng) % (hi - lo))

\* rng.gen_bool(p), p in hundredths.
gen_bool(rng, p) == (Raw(rng) % 100) < p

\* SingleIndicatorType::all(): the ten indicators, by their place.
all_indicators == <<1, 2, 3, 4, 5, 6, 7, 8, 9, 10>>

\* perturb_usize, perturb_f64, perturb_decimal: the value times a factor drawn
\* from 0.85 ..= 1.15, rounded to the unit.
Perturbed(val, rng) == (val * gen_range(rng, 85, 116) + 50) \div 100

perturb_usize(val, rng) == Max(Perturbed(val, rng), 3)

\* ind.random_params_for(rng): params of the kind of ind at a drawn point.
random_params_for(ind, rng) == IndicatorParams(ind, gen_range(rng, 7, 61))

\* perturb_indicator_params: every arm returns the variant it matched.
perturb_indicator_params(p, rng) ==
    [indicator |-> p.indicator, variant |-> perturb_usize(p.variant, rng)]

Swap(seq, i, j) == [seq EXCEPT ![i] = seq[j], ![j] = seq[i]]

\* The Fisher-Yates partial shuffle of generate_random_dynamic_combo, from
\* place i (1-based) to place n.
RECURSIVE PartialShuffle(_, _, _, _)
PartialShuffle(indices, i, n, rng) ==
    IF i > Min(n, Len(indices)) THEN indices
    ELSE PartialShuffle(Swap(indices, i, gen_range(rng, i, Len(indices) + 1)),
                        i + 1, n, Drawn(rng, 1))

\* A combo whose indicators are drawn one by one from all ten, with repeats.
RandomComboWithRepeats(n, rng) ==
    LET indicators == [i \in 1..n |-> all_indicators[gen_range(Drawn(rng, i - 1), 1, 11)]]
        params == [i \in 1..n |-> random_params_for(indicators[i], Drawn(rng, n + i - 1))]
    IN [out |-> DynamicCombo(indicators, params,
                             CombineModes[gen_range(Drawn(rng, 2 * n), 1, 4)]),
        rng |-> Drawn(rng, 2 * n + 1)]

\* generate_random_dynamic_combo(n, rng): the descriptor and the generator after.
generate_random_dynamic_combo(n, rng) ==
    LET indices == PartialShuffle([i \in 1..Len(all_indicators) |-> i], 1, n, rng)
        k == Min(n, Len(all_indicators))
        indicators == [i \in 1..n |-> all_indicators[indices[i]]]
        params == [i \in 1..n |-> random_params_for(indicators[i], Drawn(rng, k + i - 1))]
    IN [out |-> DynamicCombo(indicators, params,
                             CombineModes[gen_range(Drawn(rng, k + n), 1, 4)]),
        rng |-> Drawn(rng, k + n + 1)]

\* The arbitrage descriptor drawn by generate_random_strategies.
RandomGabagool(rng) ==
    [out |-> Gabagool(gen_range(rng, 850, 991),
                      gen_range(Drawn(rng, 1), 1, 51),
                      gen_range(Drawn(rng, 2), 10, 81)),
     rng |-> Drawn(rng, 3)]

\* One pass of the loop of generate_random_strategies.
RandomStrategy(rng) ==
    IF gen_bool(rng, 95)
    THEN generate_random_dynamic_combo(gen_range(Drawn(rng, 1), 2, 5), Drawn(rng, 2))
    ELSE RandomGabagool(Drawn(rng, 1))

Some(x, rng) == [out |-> <<x>>, rng |-> rng]
None(rng) == [out |-> << >>, rng |-> rng]

\* mutate_strategy(strategy, rng): Some(descriptor) or None, and the generator after.
mutate_strategy(strategy, rng) ==
    CASE strategy.type = "dynamic_combo" ->
            LET n == Len(strategy.params)
                new_params == [i \in 1..n |->
                    perturb_indicator_params(strategy.params[i], Drawn(rng, i - 1))]
                flip == gen_bool(Drawn(rng, n), 15)
                new_mode == IF flip THEN CombineModes[gen_range(Drawn(rng, n + 1), 1, 4)]
                            ELSE strategy.combine_mode
            IN Some(DynamicCombo(strategy.indicators, new_params, new_mode),
                    Drawn(rng, IF flip THEN n + 2 ELSE n + 1))
      [] strategy.type = "gabagool" ->
            Some(Gabagool(Min(Max(Perturbed(strategy.max_pair_cost, rng), 850), 990),
                          Max(Perturbed(strategy.bid_offset, Drawn(rng, 1)), 1),
                          Max(Perturbed(strategy.spread_multiplier, Drawn(rng, 2)), 10)),
                 Drawn(rng, 3))
      [] OTHER ->
            LET ob == Min(Max(Perturbed(strategy.overbought, rng), 55), 90)
                os == Min(Max(Perturbed(strategy.oversold, Drawn(rng, 1)), 10), 45)
            IN IF os >= ob THEN None(Drawn(rng, 2))
               ELSE Some([type |-> "rsi", period |-> perturb_usize(strategy.period, Drawn(rng, 2)),
                          overbought |-> ob, oversold |-> os],
                         Drawn(rng, 3))

\* crossover_strategies(a, b, rng).
crossover_strategies(a, b, rng) ==
    IF /\ a.type = "dynamic_combo" /\ b.type = "dynamic_combo"
       /\ a.indicators = b.indicators /\ Len(a.params) = Len(b.params)
    THEN LET n == Len(a.params)
             child_params == [i \in 1..n |->
                 IF gen_bool(Drawn(rng, i - 1), 50) THEN a.params[i] ELSE b.params[i]]
             child_mode == IF gen_bool(Drawn(rng, n), 50) THEN a.combine_mode
                           ELSE b.combine_mode
         IN Some(DynamicCombo(a.indicators, child_params, child_mode), Drawn(rng, n + 1))
    ELSE IF a.type = "rsi" /\ b.type = "rsi"
    THEN LET ob == IF gen_bool(rng, 50) THEN a.overbought ELSE b.overbought
             os == IF gen_bool(Drawn(rng, 1), 50) THEN a.oversold ELSE b.oversold
         IN IF os >= ob THEN None(Drawn(rng, 2))
            ELSE Some([type |-> "rsi",
                       period |-> IF gen_bool(Drawn(rng, 2), 50) THEN a.period ELSE b.period,
                       overbought |-> ob, oversold |-> os],
                      Drawn(rng, 3))
    ELSE mutate_strategy(a, rng)

\* The budgets of generate_ml_guided_grid for a cycle.
total_budget(cycle) == Min(MlBaseBudget + cycle * MlCycleBudget, MlMaxBudget)
\* An exploitation budget that takes the whole budget of the cycle.
ExploitWholeBudget(cycle) == total_budget(cycle)

exploit_budget(cycle) == (total_budget(cycle) * 60) \div 100
crossover_budget(cycle) == (total_budget(cycle) * 20) \div 100
explore_budget(cycle) ==
    total_budget(cycle) - exploit_budget(cycle) - crossover_budget(cycle)

\* top_n: the first 30 of the results sorted by the score they carry.
top_n(top_results) ==
    LET places == ExploitationParents(top_results)
    IN [i \in 1..Len(places) |-> top_results[places[i]]]

mutations_per(top_results, cycle) ==
    Max(exploit_budget(cycle) \div Len(top_n(top_results)), 1)

\* The extended arbitrage sweep that ends the grid of cycle 2.
GabagoolExtended ==
    LET mpcs == <<850, 880, 900, 990>>
        bos == <<2, 40, 50>>
        sms == <<10, 15, 60, 80>>
    IN [k \in 1..48 |->
            Gabagool(mpcs[((k - 1) \div 12) + 1], bos[(((k - 1) % 12) \div 4) + 1],
                     sms[((k - 1) % 4) + 1])]

\* A result as the generators read it: the descriptor and the score it carries.
Scored(strategy, score) == [strategy_type |-> strategy, composite_score |-> score]

\* The top results ML-guided grids are generated from: none, one, two combos of
\* the same indicators, four of mixed kinds, and two fallback descriptors.
TopResultLists ==
    {<< >>,
     <<Scored(Phase1Combo(0), 50)>>,
     <<Scored(Phase1Combo(0), 50), Scored(Phase1Combo(4), 70)>>,
     <<Scored(Cycle1Combo(0), 60), Scored(Phase1Gabagool(0), 60),
       Scored(Phase1Combo(9), 40), Scored(Cycle1Combo(1), 80)>>,
     <<Scored(FallbackRsi, 5), Scored(FallbackRsi, 4)>>}

MlCycles == {FirstMlCycle, FirstMlCycle + 1}

Call(generator, top_results, cycle, strategy) ==
    [generator |-> generator, top_results |-> top_results, cycle |-> cycle,
     strategy |-> strategy]

GeneratorCalls ==
    {Call("phase1", << >>, 0, FallbackRsi)}
    \cup {Call("refinement", << >>, 0, s) :
            s \in {Phase1Combo(0), Cycle1Combo(1), Phase1Gabagool(0), FallbackRsi}}
    \cup {Call("exploratory", << >>, c, FallbackRsi) : c \in 0..2}
    \cup {Call("ml_guided", l, c, FallbackRsi) : l \in TopResultLists, c \in MlCycles}

\* A generator about to be called for the first of two times with the same
\* arguments; first keeps what the first call returned.
NewGeneration(args) ==
    [pc |-> "call", args |-> args, call |-> 1, rng |-> thread_rng(0),
     grid |-> << >>, first |-> << >>, parent |-> 1, iter |-> 0,
     crossover_start |-> 0, explore_start |-> 0]

InitGenerate ==
    /\ ServerIdle
    /\ fees = NotCalled
    /\ evaluation = NotCalled
    /\ scoring = NotCalled
    /\ composite = NotCalled
    /\ arbitrage = NotCalled
    /\ \E args \in GeneratorCalls : generation = NewGeneration(args)

Calling(generator) ==
    generation.pc = "call" /\ generation.args.generator = generator

Generated(g) ==
    /\ generation' = g
    /\ UNCHANGED <<server, evaluation, scoring, composite, arbitrage, fees, cli>>

CallPhase1Grid ==
    /\ Calling("phase1")
    /\ Generated([generation EXCEPT !.pc = "return", !.grid = generate_phase1_grid])

CallRefinementGrid ==
    /\ Calling("refinement")
    /\ Generated([generation EXCEPT !.pc = "return",
                    !.grid = generate_refinement_grid(generation.args.strategy)])

\* generate_exploratory_grid, cycles 0 and 1, and cycle 2 up to the mixed pairs.
CallExploratoryGrid ==
    /\ Calling("exploratory")
    /\ IF generation.args.cycle < 2
       THEN Generated([generation EXCEPT !.pc = "return",
                         !.grid = generate_exploratory_grid(generation.args.cycle)])
       ELSE \E seed \in 1..MaxSeeds :
                Generated([generation EXCEPT !.pc = "random_pairs",
                             !.rng = thread_rng(seed), !.iter = 0,
                             !.grid = generate_exploratory_grid(2)])

\* Cycle 2: one of the 200 random combos, then the extended arbitrage sweep.
ExploratoryRandom ==
    /\ generation.pc = "random_pairs"
    /\ IF generation.iter < RandomPairs
       THEN LET n == gen_range(generation.rng, 2, 5)
                combo == generate_random_dynamic_combo(n, Drawn(generation.rng, 1))
            IN Generated([generation EXCEPT !.iter = @ + 1, !.rng = combo.rng,
                            !.grid = Append(@, combo.out)])
       ELSE Generated([generation EXCEPT !.pc = "return",
                         !.grid = @ \o GabagoolExtended])

\* generate_ml_guided_grid up to the exploitation loop.
CallMlGuidedGrid ==
    /\ Calling("ml_guided")
    /\ \E seed \in 1..MaxSeeds :
        Generated([generation EXCEPT
            !.pc = IF Len(generation.args.top_results) = 0 THEN "pad" ELSE "exploit",
            !.rng = thread_rng(seed), !.grid = << >>, !.parent = 1, !.iter = 0])

\* Exploitation: one pass of the inner loop, or the step to the next parent.
MlExploit ==
    /\ generation.pc = "exploit"
    /\ LET args == generation.args
           parents == top_n(args.top_results)
       IN IF generation.parent > Len(parents)
          THEN Generated([generation EXCEPT !.pc = "pad"])
          ELSE IF \/ generation.iter >= mutations_per(args.top_results, args.cycle)
                  \/ Len(generation.grid) >= exploit_budget(args.cycle)
          THEN Generated([generation EXCEPT !.parent = @ + 1, !.iter = 0])
          ELSE LET mutated == mutate_strategy(parents[generation.parent].strategy_type,
                                              generation.rng)
               IN Generated([generation EXCEPT !.iter = @ + 1, !.rng = mutated.rng,
                               !.grid = @ \o mutated.out])

\* The padding loop: mutations of the first parent up to the exploitation budget.
MlPad ==
    /\ generation.pc = "pad"
    /\ LET args == generation.args
           parents == top_n(args.top_results)
           leave == [generation EXCEPT !.pc = "crossover", !.iter = 0,
                                       !.crossover_start = Len(generation.grid)]
       IN IF Len(generation.grid) >= exploit_budget(args.cycle) \/ Len(parents) = 0
          THEN Generated(leave)
          ELSE LET mutated == mutate_strategy(parents[1].strategy_type, generation.rng)
               IN IF mutated.out = << >>
                  THEN Generated([leave EXCEPT !.rng = mutated.rng])
                  ELSE Generated([generation EXCEPT !.rng = mutated.rng,
                                    !.grid = @ \o mutated.out])

\* Crossover: one pass of the loop over 0..crossover_budget.
MlCrossover ==
    /\ generation.pc = "crossover"
    /\ LET args == generation.args
           parents == top_n(args.top_results)
           among == Min(Len(parents), 15)
       IN IF Len(parents) < 2 \/ generation.iter >= crossover_budget(args.cycle)
          THEN Generated([generation EXCEPT !.pc = "explore", !.iter = 0,
                            !.explore_start = Len(generation.grid)])
          ELSE LET idx_a == gen_range(generation.rng, 0, among)
                   idx_b == gen_range(Drawn(generation.rng, 1), 0, among)
                   child == crossover_strategies(parents[idx_a + 1].strategy_type,
                                                 parents[idx_b + 1].strategy_type,
                                                 Drawn(generation.rng, 2))
               IN IF idx_a = idx_b
                  THEN Generated([generation EXCEPT !.iter = @ + 1,
                                    !.rng = Drawn(generation.rng, 2)])
                  ELSE Generated([generation EXCEPT !.iter = @ + 1, !.rng = child.rng,
                                    !.grid = @ \o child.out])

\* Exploration: one pass of the loop of generate_random_strategies.
MlExplore ==
    /\ generation.pc = "explore"
    /\ IF generation.iter >= explore_budget(generation.args.cycle)
       THEN Generated([generation EXCEPT !.pc = "return"])
       ELSE LET random == RandomStrategy(generation.rng)
            IN Generated([generation EXCEPT !.iter = @ + 1, !.rng = random.rng,
                            !.grid = Append(@, random.out)])

\* The generator returns its grid; the second call follows with the same arguments.
GenerateReturn ==
    /\ generation.pc = "return"
    /\ IF generation.call = 1
       THEN Generated([NewGeneration(generation.args) EXCEPT
                         !.call = 2, !.first = generation.grid])
       ELSE Generated([generation EXCEPT !.pc = "done"])

NextGenerate ==
    \/ CallPhase1Grid
    \/ CallRefinementGrid
    \/ CallExploratoryGrid
    \/ ExploratoryRandom
    \/ CallMlGuidedGrid
    \/ MlExploit
    \/ MlPad
    \/ MlCrossover
    \/ MlExplore
    \/ GenerateReturn

SpecGenerate == InitGenerate /\ [][NextGenerate]_vars

\* ------------------------------------------------- calculate_taker_fee alone
\* Units: shares in whole units, prices in hundredths, the fee in
\* ten-thousandths; p(1 - p) is exact in ten-thousandths and its square in
\* 1e-8, so the fee is the exact Decimal value rounded down to 4 decimals.

\* A factor that weighs the price twice and its complement once.
FactorSkewed(price) == price * price * (100 - price)

\* factor = (p * (1 - p)) ^ exponent, with exponent 2, in 1e-8.
FeeFactor(price) ==
    LET p_complement == 100 - price
        base == price * p_complement
    IN base * base

\* calculate_taker_fee with PolymarketFeeConfig::default(): shares * 0.25 *
\* factor, floored to 4 decimals and 0 below 0.0001.  The division by 1e6 is
\* done in two steps of 1000 to stay within the integers.
TakerFee(shares, price) ==
    IF shares <= 0 \/ price <= 0 \/ price >= 100 THEN 0
    ELSE LET factor == FeeFactor(price)
             high == shares * 25 * (factor \div 1000)
             low == (shares * 25 * (factor % 1000)) \div 1000
             rounded == (high + low) \div 1000
         IN IF rounded < 1 THEN 0 ELSE rounded

\* Share counts: none, negative, 1 to MaxFeeShares, and hundreds.
FeeShares == {-1, 0} \cup 1..MaxFeeShares \cup {100, 1000}

InitFee ==
    /\ ServerIdle
    /\ fees \in {[pc |-> "call", shares |-> n, price |-> p] :
                    n \in FeeShares, p \in 0..100}
    /\ evaluation = NotCalled
    /\ scoring = NotCalled
    /\ generation = NotCalled
    /\ composite = NotCalled
    /\ arbitrage = NotCalled

\* The call at the price, and the call at the complement of the price.
FeeCall ==
    /\ fees.pc = "call"
    /\ fees' = [pc |-> "returned", shares |-> fees.shares, price |-> fees.price,
                fee |-> TakerFee(fees.shares, fees.price),
                fee_at_complement |-> TakerFee(fees.shares, 100 - fees.price)]
    /\ UNCHANGED <<server, evaluation, scoring, generation, composite, arbitrage, cli>>

NextFee == FeeCall

SpecFee == InitFee /\ [][NextFee]_vars

\* ------------------------------------------------------ cmd_run, the command
\* Every step a runner task can take.
RunnerStep(r) ==
    \/ FetchCancelled(r)
    \/ FetchSymbol(r)
    \/ FetchFailedMessage(r)
    \/ FetchFailedStatus(r)
    \/ Phase1Start(r)
    \/ Phase1Cancelled(r)
    \/ Phase1Lookup(r)
    \/ Phase1Hit(r)
    \/ Phase1Skipped(r)
    \/ Phase1Miss(r)
    \/ Phase1Done(r)
    \/ Phase2Cancelled(r)
    \/ Phase2Top(r)
    \/ Phase2Lookup(r)
    \/ Phase2Hit(r)
    \/ Phase2Skipped(r)
    \/ Phase2Miss(r)
    \/ FinalizeCounters(r)
    \/ FinalizeResults(r)
    \/ FinalizeStatus(r)
    \/ CyclesStart(r)
    \/ CycleTopCancelled(r)
    \/ CycleTop(r)
    \/ RefreshStart(r)
    \/ RefreshSymbol(r)
    \/ RefreshDone(r)
    \/ CycleInfo(r)
    \/ MlCycleInfo(r)
    \/ CycleTotal(r)
    \/ CycleCompleted(r)
    \/ CycleSkipped(r)
    \/ WorkCancelled(r)
    \/ WorkCancelledBest(r)
    \/ WorkCancelledResults(r)
    \/ WorkLookup(r)
    \/ WorkHit(r)
    \/ WorkSkipped(r)
    \/ WorkMiss(r)
    \/ WorkDoneRefine(r)
    \/ WorkDone(r)
    \/ RefineLeave(r)
    \/ RefineTopResult(r)
    \/ RefineLookup(r)
    \/ RefineHit(r)
    \/ RefineMiss(r)
    \/ CycleEnd(r)
    \/ FinalBest(r)
    \/ FinalCopy(r)
    \/ FinalComplete(r)

\* cmd_run after it spawned the Ctrl+C handler and the runner task over a
\* fresh DiscoveryProgress: the progress loop is about to start.
InitCli ==
    \E continuous \in BOOLEAN :
      LET request == Request(<<Symbols[1]>>, continuous, 2)
      IN /\ progress = NewProgress
         /\ requests = <<request>>
         /\ runners = <<NewRunner(request, 1, {})>>
         /\ starter = <<[pc |-> "served"]>>
         /\ rows = << >>
         /\ poller = NoPoller
         /\ faults = 0
         /\ last_save = NoSave
         /\ EngineIdle
         /\ cli = [pc |-> "loop", ctrl_c |-> FALSE, status |-> "Idle"]

\* The Ctrl+C handler: the signal arrives and cancelled is stored.
CliCtrlC ==
    /\ cli.pc # "none"
    /\ ~cli.ctrl_c
    /\ cli' = [cli EXCEPT !.ctrl_c = TRUE]
    /\ progress' = [progress EXCEPT !.cancelled = TRUE]
    /\ UNCHANGED <<runners, rows, starter, poller, requests, faults, last_save, engine>>

\* The arms of `match status` that break out of the progress loop.
Breaks(status) == status \in {"Complete", "Error"}

\* One pass of the progress loop: sleep, read the status, display, break or not.
CliPoll ==
    /\ cli.pc = "loop"
    /\ cli' = [cli EXCEPT !.status = progress.status,
                          !.pc = IF Breaks(progress.status) THEN "await" ELSE "loop"]
    /\ UNCHANGED <<server, engine>>

\* discovery_handle.await, and the display of the results.
CliAwait ==
    /\ cli.pc = "await"
    /\ runners[1].pc = "done"
    /\ cli' = [cli EXCEPT !.pc = "exited"]
    /\ UNCHANGED <<server, engine>>

NextCli ==
    \/ CliCtrlC
    \/ CliPoll
    \/ CliAwait
    \/ \E r \in Tasks : RunnerStep(r)

\* The runtime keeps scheduling the command's own task: the sleep of the loop
\* ends and the await resumes.  A runner task that has returned has no step
\* left, so its scheduling adds nothing to what follows its return.
SpecCli ==
    /\ InitCli
    /\ [][NextCli]_vars
    /\ WF_vars(CliPoll)
    /\ WF_vars(CliAwait)

\* ------------------------------------------------------------------ claims
RunInProgress == \E r \in Tasks : Live(r)

CancelledRun(r) ==
    /\ runners[r].pc = "done"
    /\ runners[r].how \in {"cancelled", "cancelled_in_fetch"}

\* C1: a runner that returns because the cancelled flag was set, wherever it
\* saw the flag (the fetch loop included), leaves status = Idle in single-shot
\* mode and status = Complete in continuous mode, never a running status.
C1_CancelledRunEndsIdleOrComplete ==
    \A r \in Tasks :
        CancelledRun(r) =>
            progress.status = IF runners[r].request.continuous THEN "Complete"
                              ELSE "Idle"

\* C2: from the moment the cancelled flag is set, a runner begins at most 50
\* further candidates (cache lookup or backtest) before it returns, in Phase 1,
\* in Phase 2, in the work loop of a cycle and in the refinement of cycle 0.
C2_AtMostFiftyAfterCancel ==
    \A r \in Tasks :
        runners[r].pc # "none" => runners[r].after_cancel <= YieldEvery

\* A runner returned on cancellation after it had run through the variants of
\* a top result with the flag already set.
C2_Witness ==
    \E r \in Tasks : CancelledRun(r) /\ runners[r].after_cancel >= 20

\* C3: while a run is in progress, completed >= skipped.
C3_CompletedAtLeastSkipped ==
    RunInProgress => progress.completed >= progress.skipped

\* C5: while a run is in progress, completed <= total_combinations (both are
\* 0 until the runner stores its first total).
C5_CompletedWithinTotal ==
    RunInProgress => progress.completed <= progress.total_combinations

\* C4: every snapshot the status endpoint returns has completed >= skipped.
C4_SnapshotCompletedAtLeastSkipped ==
    poller.pc = "responded" => poller.completed >= poller.skipped

\* The ranking a continuous run ends with: what update_best_so_far makes of
\* all its results, which is what final_results holds once it has returned.
FinalRanking(r) ==
    IF Live(r)
    THEN BestOf(runners[r].all_results, InitialCapital, runners[r].request.top_n)
    ELSE progress.final_results

\* C7: a snapshot of a continuous run whose status reads Complete carries, as
\* results, the final ranking of that run: final_results is written before
\* status = Complete on every path that ends the run.
C7_CompleteSnapshotHasFinalRanking ==
    \A r \in Tasks :
        (/\ runners[r].pc # "none"
         /\ runners[r].request.continuous
         /\ poller.pc = "responded"
         /\ poller.status = "Complete")
        => poller.results = FinalRanking(r)

\* C6: at most one runner task is alive at a time, so at most one writes the
\* shared ProgressState: a start request is accepted only when no runner
\* spawned earlier is still running.
C6_AtMostOneRunner == Cardinality({r \in Tasks : Live(r)}) <= 1

\* The run a rerun follows: a task of the same request that had run to
\* Complete when this one was spawned.
FirstRun(r) == CHOOSE e \in runners[r].earlier : TRUE

IsRerun(r) ==
    /\ runners[r].pc # "none"
    /\ runners[r].earlier # {}
    /\ runners[FirstRun(r)].request = runners[r].request

\* C8: a single-shot run of a request whose earlier run completed executes no
\* backtest and calls save for no candidate (every lookup is a hit), and once
\* it is complete its hits, and the skipped counter, are at least the number
\* of candidates the first run processed.
C8_RerunBacktestsNothing ==
    \A r \in Tasks :
        IsRerun(r) =>
            /\ runners[r].backtests = 0
            /\ runners[r].missed = {}
            /\ Len(rows) = Cardinality(runners[FirstRun(r)].missed)
            /\ (runners[r].pc = "done" /\ runners[r].how = "complete") =>
                   LET first == runners[FirstRun(r)]
                   IN /\ runners[r].hits >= first.hits + first.backtests
                      /\ progress.skipped >= first.hits + first.backtests

\* A rerun that has come to its end after refinement hits.
C8_Witness ==
    \E r \in Tasks :
        /\ IsRerun(r)
        /\ runners[r].pc = "done"
        /\ runners[r].how = "complete"
        /\ runners[FirstRun(r)].backtests > Len(generate_phase1_grid)
        /\ progress.skipped > Len(generate_phase1_grid)

\* The keys two runners have both missed and saved.
Missed(r) == IF runners[r].pc = "none" THEN {} ELSE runners[r].missed

BothMissed ==
    {h \in Missed(1) : \E r \in Tasks : r # 1 /\ h \in Missed(r)}

OwnResults(r) ==
    /\ Len(runners[r].all_results) = runners[r].hits + runners[r].backtests
    /\ runners[r].backtests = Cardinality(runners[r].missed)

\* C9: when two runners miss the same key and both save it, the table holds
\* one row for the key, no save call returns an error, and each runner has
\* pushed the result of its own backtest and gone on.
C9_RacingSavesKeepOneRow ==
    /\ \A i, j \in 1..Len(rows) :
           rows[i].params_hash = rows[j].params_hash => i = j
    /\ last_save.saved => last_save.ok
    /\ \A r \in Tasks : Live(r) => OwnResults(r)
    /\ \A h \in BothMissed :
           Cardinality({i \in 1..Len(rows) : rows[i].params_hash = h}) = 1

\* Both runners have saved the same key, the second save on top of the row of
\* the first, and the runner of the second save has gone on to a later
\* candidate.
C9_Witness ==
    /\ BothMissed # {}
    /\ last_save.saved
    /\ HasHash(last_save.before, last_save.record.params_hash)
    /\ \E r \in Tasks :
           /\ Live(r)
           /\ runners[r].run_id = last_save.record.discovery_run_id
           /\ runners[r].pc = "p1"
           /\ runners[r].backtests >= 1

\* C10: a save of a record whose params_hash is in the table leaves the table
\* as it was, every column of the row of that hash included, whatever the
\* record's other fields; after any sequence of saves no two rows share a hash.
C10_DuplicateSaveChangesNothing ==
    /\ \A i, j \in 1..Len(rows) :
           rows[i].params_hash = rows[j].params_hash => i = j
    /\ (last_save.saved /\ HasHash(last_save.before, last_save.record.params_hash))
       => rows = last_save.before

\* A save of a record that differs from the stored row of its hash.
C10_Witness ==
    /\ last_save.saved
    /\ HasHash(last_save.before, last_save.record.params_hash)
    /\ get_by_hash(last_save.before, last_save.record.params_hash)[1] # last_save.record
    /\ Len(rows) >= 2

\* The metrics of a result, as the cache stores them.
Metrics(result) ==
    <<result.net_pnl, result.win_rate, result.total_trades, result.sharpe_ratio,
      result.max_drawdown_pct, result.profit_factor, result.sortino_ratio,
      result.max_consecutive_losses>>

\* What a Phase-1 evaluation of the candidate at hand gives over the bars this
\* run has fetched.
FreshPhase1(t) ==
    LET kl == t.symbol_klines[t.sym_i]
    IN run_single_backtest(t.grid[t.grid_i], kl, kl.symbol, t.request.sizing_mode)

\* C11: a result served from the cache under a key has the metrics a fresh
\* evaluation of that (descriptor, symbol, days, sizing_mode) in the current
\* run would produce.
C11_CachedEqualsFresh ==
    \A r \in Tasks :
        (Live(r) /\ runners[r].pc = "p1_hit") =>
            Metrics(record_to_result(runners[r].existing[1]))
                = Metrics(FreshPhase1(runners[r]))

\* The symbols fetched, in the order of the request.
InRequestOrder(t) ==
    \A i, j \in 1..Len(t.symbol_klines) :
        i < j => \E a, b \in 1..Len(t.request.symbols) :
                    /\ a < b
                    /\ t.request.symbols[a] = t.symbol_klines[i].symbol
                    /\ t.request.symbols[b] = t.symbol_klines[j].symbol

\* Entry k of a Phase-1 scan: symbol-major, generator order within a symbol.
Phase1Entry(t, k) ==
    [strategy_type |-> t.grid[((k - 1) % Len(t.grid)) + 1],
     symbol |-> t.symbol_klines[((k - 1) \div Len(t.grid)) + 1].symbol,
     sizing_mode |-> t.request.sizing_mode]

\* Entry k of the work loop of a cycle: symbol, days, sizing mode, generator.
WorkEntry(t, k) ==
    LET G == Len(t.grid)
        Z == Len(t.sizing_list)
        D == Len(t.days_list)
    IN [strategy_type |-> t.grid[((k - 1) % G) + 1],
        symbol |-> t.symbol_klines[((k - 1) \div (G * Z * D)) + 1].symbol,
        sizing_mode |-> t.sizing_list[(((k - 1) \div G) % Z) + 1]]

EntryOf(result) ==
    [strategy_type |-> result.strategy_type, symbol |-> result.symbol,
     sizing_mode |-> result.sizing_mode]

InPhase1(t) == t.pc \in {"p1", "p1_hit", "p1_skipped", "p1_miss"}
InWork(t) == t.pc \in {"work", "work_hit", "work_skipped", "work_miss"}

\* C12: the result list of a scan has one entry per candidate processed, in
\* the order symbol (request order, fetched symbols only) then generator,
\* whichever candidates the cache served.
C12_ResultsInLoopOrder ==
    \A r \in Tasks :
        LET t == runners[r]
        IN /\ (Live(r) /\ InPhase1(t)) =>
                /\ InRequestOrder(t)
                /\ Len(t.all_results) = t.hits + t.backtests
                /\ Len(t.all_results) = t.global_idx
                /\ \A k \in 1..Len(t.all_results) :
                       EntryOf(t.all_results[k]) = Phase1Entry(t, k)
           /\ (Live(r) /\ InWork(t)) =>
                /\ InRequestOrder(t)
                /\ t.cycle_idx <= Len(t.all_results)
                /\ (t.cycle = 0 => Len(t.all_results) = t.hits + t.backtests)
                /\ \A k \in 1..t.cycle_idx :
                       EntryOf(t.all_results[Len(t.all_results) - t.cycle_idx + k])
                           = WorkEntry(t, k)

\* Both symbols scanned to the end, some candidates served by the cache and
\* some evaluated.
C12_Witness ==
    \E r \in Tasks :
        /\ Live(r)
        /\ runners[r].pc \in {"p1", "work"}
        /\ Len(runners[r].symbol_klines) = 2
        /\ runners[r].sym_i > 2
        /\ runners[r].hits >= 2
        /\ runners[r].backtests >= 2

\* What the runner's own evaluation gives for the candidate at place k of a
\* Phase-1 scan, and of the work loop of cycle 0.
FreshAt(t, k) ==
    IF InPhase1(t)
    THEN LET kl == t.symbol_klines[((k - 1) \div Len(t.grid)) + 1]
         IN run_single_backtest(Phase1Entry(t, k).strategy_type, kl, kl.symbol,
                                t.request.sizing_mode)
    ELSE LET G == Len(t.grid)
             Z == Len(t.sizing_list)
             D == Len(t.days_list)
             full_klines == t.symbol_klines[((k - 1) \div (G * Z * D)) + 1]
             days == t.days_list[(((k - 1) \div (G * Z)) % D) + 1]
         IN run_single_backtest(WorkEntry(t, k).strategy_type,
                                slice_klines_to_days(full_klines, days),
                                full_klines.symbol, WorkEntry(t, k).sizing_mode)

\* The candidates the runner has gone through in the loop it is in.
Processed(t) == IF InPhase1(t) THEN t.global_idx ELSE t.cycle_idx

\* C13: a candidate whose cache read failed is taken as a miss (it goes to the
\* backtest, and the result of this run's backtest is what is appended); a
\* candidate whose insert failed still has its result appended and counted in
\* completed, and the runner goes on.
C13_CacheErrorsDoNotAlterRun ==
    \A r \in Tasks :
        LET t == runners[r]
        IN (Live(r) /\ (InPhase1(t) \/ (InWork(t) /\ t.cycle = 0))) =>
             \A f \in t.io_faults :
                /\ f[1] = "read" =>
                     IF f[2] > Len(t.all_results)
                     THEN t.pc \in {"p1_miss", "work_miss"}
                     ELSE t.all_results[f[2]] = FreshAt(t, f[2])
                /\ f[1] = "save" =>
                     /\ f[2] <= Len(t.all_results)
                     /\ t.all_results[f[2]] = FreshAt(t, f[2])
                     /\ Processed(t) >= f[2]
                     /\ progress.completed >= f[2]

\* The read of a candidate the table holds failed, the insert of another
\* failed, and the runner has processed a candidate after each.
C13_Witness ==
    \E r \in Tasks :
        /\ Live(r)
        /\ InPhase1(runners[r]) \/ InWork(runners[r])
        /\ \E f, g \in runners[r].io_faults :
              /\ f[1] = "read"
              /\ g[1] = "save"
              /\ f[2] < Len(runners[r].all_results)
              /\ g[2] < Len(runners[r].all_results)
              /\ HasHash(rows, compute_params_hash(
                                   runners[r].all_results[f[2]].strategy_type,
                                   runners[r].all_results[f[2]].symbol,
                                   runners[r].request.days,
                                   runners[r].request.sizing_mode))
              /\ ~HasHash(rows, compute_params_hash(
                                   runners[r].all_results[g[2]].strategy_type,
                                   runners[r].all_results[g[2]].symbol,
                                   runners[r].request.days,
                                   runners[r].request.sizing_mode))

\* C14: a run whose every fetch failed ends in status = Error with the
\* message set and no candidate evaluated, and a snapshot of the status
\* endpoint that reads status = Error carries the error message.
C14_ErrorSnapshotHasMessage ==
    /\ \A r \in Tasks :
           (runners[r].pc = "done" /\ runners[r].how = "error") =>
               runners[r].hits + runners[r].backtests = 0
    /\ progress.status = "Error" => progress.error_message # "None"
    /\ (poller.pc = "responded" /\ poller.status = "Error") => poller.error # "None"

\* C15: when the work of a cycle is finished (the work loop and, in cycle 0,
\* the refinement), and the run was not cancelled, total_new_this_cycle plus
\* the cache hits of the cycle (skipped, cleared at the start of the cycle)
\* equals the size of the work set, which is what total_combinations holds.
C15_CycleCountsAddUp ==
    \A r \in Tasks :
        (Live(r) /\ runners[r].pc = "cycle_end" /\ ~progress.cancelled) =>
            progress.total_new_this_cycle + progress.skipped
                = progress.total_combinations

\* C16: no step taken while a runner task is alive (after the reset of its
\* progress, before its return) lowers completed or skipped.
C16_CountersNeverDecrease ==
    [][(\E r \in Tasks : Live(r) /\ runners'[r].pc \notin {"none", "done"}) =>
           /\ progress'.completed >= progress.completed
           /\ progress'.skipped >= progress.skipped]_vars

\* A run has come to its end with status = Complete.
Completed(r) ==
    /\ runners[r].pc = "done"
    /\ runners[r].how \in {"complete", "cancelled"}
    /\ progress.status = "Complete"

\* C17: once a run has reached status = Complete, final_results has at most
\* top_n entries, the entry at place i has rank i, and composite_score does
\* not increase along the list.
C17_FinalResultsRanked ==
    \A r \in Tasks :
        Completed(r) =>
            LET final == progress.final_results
            IN /\ Len(final) <= runners[r].request.top_n
               /\ \A i \in 1..Len(final) : final[i].rank = i
               /\ \A i \in 1..(Len(final) - 1) :
                      final[i].composite_score >= final[i + 1].composite_score

\* C18: once a run has reached status = Complete, no two entries of
\* final_results share the key (strategy_name, symbol, total_trades).
C18_FinalResultsDistinctKeys ==
    \A r \in Tasks :
        Completed(r) =>
            \A i, j \in 1..Len(progress.final_results) :
                DedupKey(progress.final_results[i])
                    = DedupKey(progress.final_results[j]) => i = j

\* C19: the id save returns is the id of the row that holds the record's
\* params_hash after the call, also when the insert was ignored.
C19_SaveReturnsRowOfHash ==
    last_save.saved =>
        /\ last_save.id \in 1..Len(rows)
        /\ rows[last_save.id].params_hash = last_save.record.params_hash

\* The parents are the highest-scoring results: no result left out scores
\* higher, by the scorer, than a result taken.
HighestScoring(results, parents) ==
    LET taken == {parents[i] : i \in 1..Len(parents)}
    IN /\ Len(parents) = Min(ExploitParents, Len(results))
       /\ \A i \in taken, j \in (1..Len(results)) \ taken :
              score_result(results[i], InitialCapital)
                  >= score_result(results[j], InitialCapital)

\* C20: the exploitation parents of a cycle >= 3 are the 30 results with the
\* highest composite score, as the scorer scores them, of all the results the
\* run has accumulated.
C20_ParentsAreTopScored ==
    \A r \in Tasks :
        (Live(r) /\ runners[r].pc = "ml_grid") =>
            HighestScoring(runners[r].all_results, runners[r].ml_parents)

\* The rule of the composite scorer for a result that has enough trades: the
\* sum of the nine terms, in hundredths.
SummedRule(result, initial_capital) ==
    LET WR == result.win_rate
        PF == result.profit_factor
        streak == result.max_consecutive_losses
    IN result.net_pnl
       + (IF WR >= 7000 THEN 3 ELSE IF WR >= 5500 THEN 2 ELSE 1) * (WR - 5000)
       + 100 * result.sharpe_ratio
       - 3 * result.max_drawdown_pct
       + (IF PF > 100 THEN 50 ELSE 100) * (PF - 100)
       + (IF 5 * result.net_pnl > initial_capital * 100 THEN 20000 ELSE 0)
       + 3 * result.strategy_confidence
       + 50 * Min(result.sortino_ratio, 500)
       - (IF streak > 10 THEN 10000 ELSE IF streak > 7 THEN 5000 ELSE 0)

\* C24: score_result returns exactly -9999 for every result with
\* total_trades < 5, whatever its other metrics are, and the sum of the
\* scoring terms when total_trades >= 5.
C24_FewTradesScoreFloor ==
    scoring.pc = "returned" =>
        scoring.score = IF scoring.result.total_trades < 5 THEN -999900
                        ELSE SummedRule(scoring.result, InitialCapital)

\* A result with four trades whose summed terms are high, scored -9999.
C24_Witness ==
    /\ scoring.pc = "returned"
    /\ scoring.result.total_trades = 4
    /\ SummedRule(scoring.result, InitialCapital) > 0
    /\ scoring.score = -999900

\* The Kelly window of an evaluation.
KellyWindow(e) ==
    <<e.recent_wins, e.recent_total, e.recent_avg_win, e.recent_avg_loss>>

\* The signal of the bar the loop is at.
SignalAtHand == evaluation.generator[evaluation.bar].signal

\* A pass of the loop on a signal that asks for nothing new: a Buy while a
\* position is open, a Sell while none is open, a Hold.
IdlePass ==
    /\ evaluation.pc = "bars"
    /\ evaluation.bar <= Len(evaluation.klines)
    /\ evaluation'.pc = "bars"
    /\ \/ SignalAtHand = "Hold"
       \/ SignalAtHand = "Buy" /\ evaluation.position # << >>
       \/ SignalAtHand = "Sell" /\ evaluation.position = << >>

\* C25: during an evaluation there is never more than one open position, and
\* a Buy while a position is open, a Sell while none is open, and a Hold each
\* leave equity, the open position, the trade list and the Kelly window
\* unchanged.
C25_IdleSignalsChangeNothing ==
    /\ [](evaluation.pc # "none" =>
             /\ Len(evaluation.position) <= 1
             /\ evaluation.opened - Len(evaluation.trades) = Len(evaluation.position))
    /\ [][IdlePass =>
             /\ evaluation'.equity = evaluation.equity
             /\ evaluation'.position = evaluation.position
             /\ evaluation'.trades = evaluation.trades
             /\ KellyWindow(evaluation') = KellyWindow(evaluation)]_vars

\* A Sell with no position, an entry, then a Buy and a Hold while the
\* position is open: still the one entry, no trade.
C25_Witness ==
    /\ evaluation.pc = "bars"
    /\ evaluation.bar = 5
    /\ evaluation.generator[1].signal = "Sell"
    /\ evaluation.generator[2].signal = "Buy"
    /\ evaluation.generator[3].signal = "Buy"
    /\ evaluation.generator[4].signal = "Hold"
    /\ evaluation.opened = 1
    /\ evaluation.position # << >>
    /\ evaluation.trades = << >>

\* C26: when an evaluation finishes no position is open and there are as
\* many trades as positions were opened: each one was closed once, by a later
\* Sell or by the force-close at the close of the last bar.
C26_EveryPositionClosedOnce ==
    evaluation.pc \in {"metrics", "returned"} =>
        /\ evaluation.position = << >>
        /\ Len(evaluation.trades) = evaluation.opened
        /\ \A i \in 1..Len(evaluation.trades) :
              LET trade == evaluation.trades[i]
                  bar == trade.exit_time
              IN /\ trade.exit_price = evaluation.klines[bar].close
                 /\ \/ evaluation.generator[bar].signal = "Sell"
                    \/ i = Len(evaluation.trades) /\ bar = Len(evaluation.klines)

\* An evaluation that closed one position on a Sell and the next by the
\* force-close.
C26_Witness ==
    /\ evaluation.pc = "returned"
    /\ evaluation.opened = 2
    /\ Len(evaluation.trades) = 2
    /\ evaluation.generator[evaluation.trades[1].exit_time].signal = "Sell"
    /\ evaluation.generator[Len(evaluation.klines)].signal # "Sell"
    /\ evaluation.trades[2].exit_time = Len(evaluation.klines)

RECURSIVE SumPnl(_)
SumPnl(trades) ==
    IF trades = << >> THEN 0
    ELSE trades[1].pnl + SumPnl(Tail(trades))

\* C27: total_fees, recomputed from the trade list, equals the entry and exit
\* fees taken from equity during the replay, so total_pnl is the sum of the
\* trades' pnl less total_fees and the reported gross_pnl is that sum.
C27_FeesRecomputedEqualFeesPaid ==
    evaluation.pc = "returned" =>
        LET result == evaluation.result[1]
        IN /\ result.total_fees = evaluation.fees_paid
           /\ result.total_pnl = SumPnl(evaluation.trades) - result.total_fees
           /\ result.gross_pnl = SumPnl(evaluation.trades)

\* An evaluation with a winning and a losing trade at different prices, the
\* last one force-closed, that paid fees.
C27_Witness ==
    /\ evaluation.pc = "returned"
    /\ Len(evaluation.trades) = 2
    /\ evaluation.trades[1].pnl < 0
    /\ evaluation.trades[2].pnl > 0
    /\ evaluation.generator[Len(evaluation.klines)].signal # "Sell"
    /\ evaluation.fees_paid > 0
    /\ evaluation.result[1].total_fees > 0

\* The entry size the Kelly rule asks for, from the window: the quotient is
\* taken once, over the whole expression, in tenths of a percent.  With no
\* win in the window b is 0 and the clamped value is the lower end.
KellyRule(e) ==
    LET wins == e.recent_wins
        losses == e.recent_total - e.recent_wins
    IN IF e.recent_total < 10 \/ e.recent_avg_loss = 0 THEN e.base_position_pct
       ELSE IF e.recent_avg_win = 0 THEN 0
       ELSE Min(250, Max(0,
                (1000 * (wins * e.recent_avg_win - losses * e.recent_avg_loss))
                    \div (e.recent_total * e.recent_avg_win)))

\* An entry decision under Kelly sizing was the last thing to touch the
\* window's reader: a position is open, or the entry was skipped.
KellyDecided(e) ==
    /\ e.pc = "bars"
    /\ e.sizing_mode = "Kelly"
    /\ e.position # << >> \/ e.skipped

\* C28: under Kelly sizing the entry size is base_position_pct whenever fewer
\* than 10 trades have closed or avg_loss is 0, and otherwise the Kelly
\* percentage of the window clamped into [0, 25]; it is always in [0, 25] or
\* equal to base_position_pct.  Sizes agree to the model's unit.
C28_KellyEntrySize ==
    KellyDecided(evaluation) =>
        /\ Abs(evaluation.size_pct - KellyRule(evaluation)) <= 1
        /\ \/ evaluation.size_pct = evaluation.base_position_pct
           \/ evaluation.size_pct \in 0..250

\* An entry after ten closed trades, four of them losing, at a Kelly size
\* strictly between the bounds and different from the base size.
C28_Witness ==
    /\ KellyDecided(evaluation)
    /\ evaluation.recent_total >= 10
    /\ evaluation.recent_avg_loss > 0
    /\ evaluation.position # << >>
    /\ evaluation.size_pct \in 1..249
    /\ evaluation.size_pct # evaluation.base_position_pct

\* C29: in Majority mode with n sub-generators the composite emits Buy
\* whenever at least ceil(n/2) subs emit Buy and Sell whenever at least
\* ceil(n/2) subs emit Sell, for every n from 2 to 4 and every combination of
\* sub signals; otherwise it emits Hold.
C29_MajorityFollowsEitherSide ==
    (composite.pc = "returned" /\ composite.mode = "Majority") =>
        LET n == Len(composite.signals)
            needed == (n + 1) \div 2
            buys == Count(composite.signals, "Buy")
            sells == Count(composite.signals, "Sell")
        IN /\ buys >= needed => composite.out.signal = "Buy"
           /\ sells >= needed => composite.out.signal = "Sell"
           /\ (buys < needed /\ sells < needed) => composite.out.signal = "Hold"

\* C30: for every bar and every arbitrage configuration the generators can
\* produce, pair_cost < 1 on the window, and every traded window has
\* locked_profit > 0.
C30_PairCostBelowOne ==
    arbitrage.pc # "none" =>
        \A i \in 1..Len(arbitrage.windows) :
            /\ arbitrage.windows[i].pair_cost < 10000
            /\ arbitrage.windows[i].traded => arbitrage.windows[i].locked_profit > 0

\* A run that traded a window whose YES fill sits on the floor of 0.05 and
\* skipped another.
C30_Witness ==
    /\ arbitrage.pc = "returned"
    /\ \E i \in 1..Len(arbitrage.windows) :
          /\ arbitrage.windows[i].traded
          /\ arbitrage.windows[i].yes_fill = 500
          /\ arbitrage.windows[i].locked_profit > 0
    /\ \E i \in 1..Len(arbitrage.windows) : ~arbitrage.windows[i].traded

\* ---- the parameter-space generators (SpecGenerate)

\* The budget the contract gives the ML-guided generator for a cycle.
ContractBudget(cycle) == Min(300 + 50 * (cycle - FirstMlCycle), 1000)

MlGridReturned ==
    generation.pc = "return" /\ generation.args.generator = "ml_guided"

\* C21: an ML-guided grid for cycle c >= 3 has at most min(300 + 50(c - 3), 1000)
\* descriptors, at most 60% of that budget from exploitation and at most 20% of
\* it from crossover.
C21_GridWithinContractBudget ==
    MlGridReturned =>
        LET budget == ContractBudget(generation.args.cycle)
            exploitation == generation.crossover_start
            crossover == generation.explore_start - generation.crossover_start
        IN /\ Len(generation.grid) <= budget
           /\ exploitation * 100 <= budget * 60
           /\ crossover * 100 <= budget * 20

\* The budget with the cycle number itself as the factor.
BudgetOfCycle(cycle) == Min(300 + 50 * cycle, 1000)

\* C21, amended: an ML-guided grid for cycle c >= 3 has at most
\* min(300 + 50c, 1000) descriptors (450 at cycle 3), at most 60% of that budget
\* from exploitation and at most 20% of it from crossover.
C21_GridWithinBudgetOfCycle ==
    MlGridReturned =>
        LET budget == BudgetOfCycle(generation.args.cycle)
            exploitation == generation.crossover_start
            crossover == generation.explore_start - generation.crossover_start
        IN /\ Len(generation.grid) <= budget
           /\ exploitation * 100 <= budget * 60
           /\ crossover * 100 <= budget * 20

\* A grid of cycle 3 is returned with more than 300 descriptors, its
\* exploitation share full and some of it from crossover.
C21_Witness ==
    /\ MlGridReturned
    /\ generation.args.cycle = FirstMlCycle
    /\ Len(generation.grid) > 300
    /\ generation.crossover_start = 270
    /\ generation.explore_start > generation.crossover_start

\* C22: a generator called twice with the same arguments returns the same
\* sequence of descriptors both times.
C22_SecondCallReturnsTheSame ==
    generation.pc = "done" => generation.grid = generation.first

WellFormedCombo(d) ==
    /\ Len(d.indicators) = Len(d.params)
    /\ Len(d.indicators) \in 2..4
    /\ \A i, j \in 1..Len(d.indicators) : d.indicators[i] = d.indicators[j] => i = j
    /\ \A i \in 1..Len(d.params) : d.params[i].indicator = d.indicators[i]

\* C23: every DynamicCombo descriptor of a grid a generator returns has as many
\* params as indicators, two to four of them, no indicator twice, and each
\* params[i] of the kind of indicators[i].
C23_CombosWellFormed ==
    generation.pc = "return" =>
        \A i \in 1..Len(generation.grid) :
            generation.grid[i].type = "dynamic_combo" =>
                WellFormedCombo(generation.grid[i])

\* An ML-guided grid is returned that holds mutated, crossed and random combos,
\* one of them with four indicators.
C23_Witness ==
    /\ MlGridReturned
    /\ 0 < generation.crossover_start
    /\ generation.crossover_start < generation.explore_start
    /\ \A i \in 1..generation.explore_start :
            generation.grid[i].type = "dynamic_combo"
    /\ \E i \in (generation.explore_start + 1)..Len(generation.grid) :
            /\ generation.grid[i].type = "dynamic_combo"
            /\ Len(generation.grid[i].indicators) = 4

\* ---- the arbitrage profit curve (SpecGabagool)

\* C31: the profit curve the arbitrage engine returns has one point per
\* window, never falls from a window to the next, and ends at
\* total_locked_profit.
C31_ProfitCurveMonotonic ==
    arbitrage.pc = "returned" =>
        LET curve == arbitrage.profit_curve
        IN /\ Len(curve) = Len(arbitrage.klines)
           /\ \A i \in 1..(Len(curve) - 1) : curve[i].equity <= curve[i + 1].equity
           /\ Len(curve) > 0 => curve[Len(curve)].equity = arbitrage.total_locked_profit

\* A returned run of two windows or more whose curve rises at a traded window
\* with less profit than the window before, and stays level at a skipped one.
C31_Witness ==
    /\ arbitrage.pc = "returned"
    /\ \E i \in 2..Len(arbitrage.windows) :
          /\ arbitrage.windows[i].traded
          /\ arbitrage.windows[i - 1].traded
          /\ arbitrage.windows[i].locked_profit < arbitrage.windows[i - 1].locked_profit
          /\ arbitrage.profit_curve[i].equity > arbitrage.profit_curve[i - 1].equity

\* ---- the taker fee (SpecFee)

\* C32: for every share count and every price strictly between 0 and 1, the
\* fee at the price equals the fee at one minus the price, after the rounding
\* down to 4 decimals.
C32_FeeSymmetry ==
    (fees.pc = "returned" /\ fees.price > 0 /\ fees.price < 100) =>
        fees.fee = fees.fee_at_complement

\* 100 shares at 0.30: the fee is 1.1025, as it is at 0.70.
C32_Witness ==
    /\ fees.pc = "returned"
    /\ fees.shares = 100
    /\ fees.price = 30
    /\ fees.fee = 11025
    /\ fees.fee_at_complement = 11025

\* ---- the command-line progress loop (SpecCli)

\* C33: once the runner task has returned, the progress loop of cmd_run ends.
C33_LoopEndsWithRunner ==
    (runners[1].pc = "done") ~> (cli.pc # "loop")

\* ---- the Kelly freeze (SpecReplay)

\* A Buy of this evaluation has been skipped under Kelly sizing.
KellySkipped ==
    /\ evaluation.pc # "none"
    /\ evaluation.sizing_mode = "Kelly"
    /\ evaluation.skips > 0

\* C34: under Kelly sizing, once a Buy has been skipped for a size <= 0, no
\* later step of the evaluation opens a position or adds a trade.
C34_SkippedBuyFreezesTrades ==
    [][KellySkipped =>
         /\ evaluation'.opened = evaluation.opened
         /\ evaluation'.trades = evaluation.trades
         /\ evaluation'.position = << >>]_vars

\* An evaluation under Kelly sizing that closed ten trades or more, then
\* skipped two Buys, and has run to its end.
C34_Witness ==
    /\ evaluation.pc = "returned"
    /\ evaluation.sizing_mode = "Kelly"
    /\ evaluation.skips >= 2
    /\ Len(evaluation.trades) >= KellyMinTrades

\* ---- the sentinel and the scores of results with five trades or more

\* The score of the result the replay returned, with the confidence a
\* promising strategy is given.
ReplayScore(confidence) ==
    score_result(DiscoveryResultOf(evaluation.result[1], confidence), InitialCapital)

\* C35: the -9999 sentinel is a lower bound on the score of a result with at
\* least 5 trades, so that a result with fewer trades never ranks above it.
C35_SentinelIsLowerBound ==
    (evaluation.pc = "returned" /\ evaluation.result[1].total_trades >= MinTrades) =>
        \A confidence \in {0, 10000} : ReplayScore(confidence) >= -999900

\* ---- the averages of the winning and the losing trades

\* The mean of the values at the indices in `among`, to the hundredth.
MeanOver(values, among) == SumOver(values, among) \div Cardinality(among)

\* C36: avg_loss_pnl is the mean of |pnl| over the trades with pnl < 0 and
\* avg_win_pnl the mean of pnl over the trades with pnl > 0, so that a trade
\* with pnl = 0 changes neither.
C36_AveragesAreBucketMeans ==
    evaluation.pc = "returned" =>
        LET trades == evaluation.trades
            result == evaluation.result[1]
            negative == {i \in 1..Len(trades) : trades[i].pnl < 0}
            positive == {i \in 1..Len(trades) : trades[i].pnl > 0}
        IN /\ negative # {} => result.avg_loss_pnl = MeanOver(Losses(trades), negative)
           /\ positive # {} => result.avg_win_pnl = MeanOver(Pnls(trades), positive)

\* ---- best_so_far during a run

\* best holds the top_n highest-scoring of results, ranked from 1 in
\* non-increasing score order.
TopRanked(best, results, keep) ==
    /\ Len(best) = Min(keep, Len(results))
    /\ \A i \in 1..Len(best) :
          /\ best[i].rank = i
          /\ best[i].composite_score = score_result(best[i], InitialCapital)
    /\ \A i \in 1..(Len(best) - 1) :
          best[i].composite_score >= best[i + 1].composite_score
    /\ \E place \in [1..Len(best) -> 1..Len(results)] :
          /\ \A i, j \in 1..Len(best) : place[i] = place[j] => i = j
          /\ \A i \in 1..Len(best) :
                best[i] = [results[place[i]] EXCEPT
                              !.rank = best[i].rank,
                              !.composite_score = best[i].composite_score]
          /\ \A k \in 1..Len(results) :
                (\A i \in 1..Len(best) : place[i] # k) =>
                    \A i \in 1..Len(best) :
                       score_result(results[k], InitialCapital) <= best[i].composite_score

\* C37: each time a run writes best_so_far, the list is the top_n
\* highest-scoring of all the results the run has accumulated, ranked 1..k in
\* non-increasing score order, and its rank-1 score is not below the one it
\* replaces.
C37_BestSoFarIsTopOfRun ==
    [][(progress'.best_so_far # progress.best_so_far /\ starter' = starter) =>
         /\ \E r \in Tasks :
               /\ runners'[r].pc \notin {"none", "done"}
               /\ TopRanked(progress'.best_so_far, runners'[r].all_results,
                            runners'[r].request.top_n)
         /\ progress.best_so_far # << >> =>
               /\ progress'.best_so_far # << >>
               /\ progress'.best_so_far[1].composite_score
                     >= progress.best_so_far[1].composite_score]_vars

\* ---- the 6-hour refresh in continuous mode (SpecPair)

\* The symbols a list of fetched bars covers.
SymbolsOf(symbol_klines) == {symbol_klines[i].symbol : i \in 1..Len(symbol_klines)}

\* C38: a refresh never shrinks the set of symbols being scanned: a symbol
\* whose refresh failed, or that the refresh did not reach, keeps the bars
\* fetched before.
C38_RefreshKeepsEverySymbol ==
    [][\A r \in Tasks :
          (runners[r].pc = "refresh" /\ runners'[r].pc = "cycle_info") =>
             \A i \in 1..Len(runners[r].symbol_klines) :
                LET old == runners[r].symbol_klines[i]
                IN /\ old.symbol \in SymbolsOf(runners'[r].symbol_klines)
                   /\ old.symbol \notin SymbolsOf(runners[r].new_klines) =>
                         \E j \in 1..Len(runners'[r].symbol_klines) :
                            runners'[r].symbol_klines[j] = old]_vars

====
